---- MODULE Spec2Model ----
(***************************************************************************)
(* Model of the resilient delivery engine of the WirePusher / Pincho       *)
(* JavaScript client (class WirePusher, client.ts): one logical            *)
(* send()/notifai() call running executeWithRetry over sendRequest, the    *)
(* error classifier handleErrorResponse, the backoff calculator and the    *)
(* rate-limit tracker.                                                     *)
(*                                                                         *)
(* A call is a cooperative task that suspends at three await points: the   *)
(* pending fetch (pc = "fetch"), the read of the response body             *)
(* (pc = "body") and the backoff sleep (pc = "wait").  Each action below   *)
(* is the code that runs between two suspensions.                          *)
(***************************************************************************)
EXTENDS Integers, Sequences, FiniteSets, TLC

(***************************************************************************)
(* Bounds of the model.                                                    *)
(***************************************************************************)
MaxRetries == 6

(***************************************************************************)
(* The configured timeout of one attempt, in ticks of the model's clock.   *)
(***************************************************************************)
Timeout == 1

(***************************************************************************)
(* The longest Buffer given to applyPKCS7Padding.                          *)
(***************************************************************************)
MaxBytes == 33

(***************************************************************************)
(* The longest list of tags given to send().                               *)
(***************************************************************************)
MaxTags == 3

(***************************************************************************)
(* The most timers of rejected attempts that are left running at a time.   *)
(***************************************************************************)
MaxStaleTimers == 2

(***************************************************************************)
(* Retry constants of the client.                                          *)
(***************************************************************************)
INITIAL_BACKOFF_MS == 1000
MAX_BACKOFF_MS == 30000
RATE_LIMIT_BACKOFF_MS == 5000

(***************************************************************************)
(* ErrorCode enum.                                                         *)
(***************************************************************************)
ErrorCode ==
  [UNKNOWN |-> "UNKNOWN", NETWORK_ERROR |-> "NETWORK_ERROR", TIMEOUT |-> "TIMEOUT",
   AUTH_INVALID |-> "AUTH_INVALID", AUTH_FORBIDDEN |-> "AUTH_FORBIDDEN",
   VALIDATION_ERROR |-> "VALIDATION_ERROR", NOT_FOUND |-> "NOT_FOUND",
   RATE_LIMIT |-> "RATE_LIMIT", SERVER_ERROR |-> "SERVER_ERROR"]

(***************************************************************************)
(* Values of JavaScript: undefined (an optional number that is not set),   *)
(* a number, null (an absent header) and a header string, kept as the      *)
(* tuple of its characters.                                                *)
(***************************************************************************)
Undefined == [defined |-> FALSE, value |-> 0]
Num(n) == [defined |-> TRUE, value |-> n]
Null == [present |-> FALSE, text |-> <<>>]
Str(t) == [present |-> TRUE, text |-> t]
Truthy(h) == h.present /\ h.text # <<>>

(***************************************************************************)
(* parseInt(s, 10): skip leading blanks, take an optional sign and the     *)
(* longest prefix of decimal digits; NaN when there is no digit.           *)
(***************************************************************************)
Digit == {"0", "1", "2", "3", "4", "5", "6", "7", "8", "9"}
DigitVal(ch) ==
  CASE ch = "0" -> 0 [] ch = "1" -> 1 [] ch = "2" -> 2 [] ch = "3" -> 3
    [] ch = "4" -> 4 [] ch = "5" -> 5 [] ch = "6" -> 6 [] ch = "7" -> 7
    [] ch = "8" -> 8 [] ch = "9" -> 9

RECURSIVE SkipBlanks(_)
SkipBlanks(s) ==
  IF s # <<>> /\ Head(s) = " " THEN SkipBlanks(Tail(s)) ELSE s

RECURSIVE DigitPrefix(_, _, _)
DigitPrefix(s, acc, seen) ==
  IF s # <<>> /\ Head(s) \in Digit
    THEN DigitPrefix(Tail(s), acc * 10 + DigitVal(Head(s)), TRUE)
    ELSE [nan |-> ~seen, value |-> acc]

parseInt(s) ==
  LET t == SkipBlanks(s)
      signed == t # <<>> /\ Head(t) \in {"-", "+"}
      r == DigitPrefix(IF signed THEN Tail(t) ELSE t, 0, FALSE)
  IN  [nan |-> r.nan,
       value |-> IF signed /\ Head(t) = "-" THEN 0 - r.value ELSE r.value]

(***************************************************************************)
(* WirePusherError: message, code, isRetryable and the optional            *)
(* retryAfterSeconds, which the constructor leaves undefined.              *)
(***************************************************************************)
WirePusherError(message, code, isRetryable) ==
  [message |-> message, code |-> code, isRetryable |-> isRetryable,
   retryAfterSeconds |-> Undefined]

NoError == [message |-> <<>>, code |-> "none", isRetryable |-> FALSE,
            retryAfterSeconds |-> Undefined]

(***************************************************************************)
(* A thrown value that is no WirePusherError, as the catch blocks see it:  *)
(* it has no code, is not retryable and has no retryAfterSeconds.          *)
(* error instanceof WirePusherError holds of the values built by the       *)
(* constructor, which all carry a code of ErrorCode.                       *)
(***************************************************************************)
RawError(message) ==
  [message |-> <<message>>, code |-> "", isRetryable |-> FALSE,
   retryAfterSeconds |-> Undefined]

InstanceOfWirePusherError(error) ==
  error.code \in {ErrorCode[k] : k \in DOMAIN ErrorCode}


(***************************************************************************)
(* calculateBackoff(attempt, isRateLimit): min(base * 2^attempt, max).     *)
(***************************************************************************)
RECURSIVE Pow2(_)
Pow2(n) == IF n <= 0 THEN 1 ELSE 2 * Pow2(n - 1)

Min(a, b) == IF a < b THEN a ELSE b

calculateBackoff_OneIndexed(n, isRateLimit) ==
  LET baseDelay == IF isRateLimit THEN RATE_LIMIT_BACKOFF_MS ELSE INITIAL_BACKOFF_MS
  IN  Min(baseDelay * Pow2(n + 1), MAX_BACKOFF_MS)

calculateBackoff_NoCap(n, isRateLimit) ==
  LET baseDelay == IF isRateLimit THEN RATE_LIMIT_BACKOFF_MS ELSE INITIAL_BACKOFF_MS
  IN  baseDelay * Pow2(n)

calculateBackoff(n, isRateLimit) ==
  LET baseDelay == IF isRateLimit THEN RATE_LIMIT_BACKOFF_MS ELSE INITIAL_BACKOFF_MS
      d == baseDelay * Pow2(n)
  IN  Min(d, MAX_BACKOFF_MS)

(***************************************************************************)
(* The delay selection of executeWithRetry's catch block: the Retry-After  *)
(* value of a rate-limit error when it is set, else calculateBackoff.      *)
(***************************************************************************)
RetryDelay_IgnoresHint(error, n) ==
  calculateBackoff(n, error.code = ErrorCode.RATE_LIMIT)

RetryDelay(error, n) ==
  LET isRateLimit == error.code = ErrorCode.RATE_LIMIT
  IN  IF isRateLimit /\ error.retryAfterSeconds.defined
        THEN error.retryAfterSeconds.value * 1000
        ELSE calculateBackoff(n, isRateLimit)

(***************************************************************************)
(* The loop condition and the rethrow condition of executeWithRetry.       *)
(***************************************************************************)
LoopCondition_Exclusive(n, max) == n < max

ShouldThrow_IgnoresRetryable(error, n, max) == n = max

LoopCondition(n, max) == n <= max

ShouldThrow(error, n, max) == ~error.isRetryable \/ n = max

(***************************************************************************)
(* parseRateLimitHeaders: all three headers present and integers, or null. *)
(* A snapshot is [set, limit, remaining, reset]; reset is the Date in ms.  *)
(***************************************************************************)
NoRateLimit == [set |-> FALSE, limit |-> 0, remaining |-> 0, reset |-> 0]

parseRateLimitHeaders_NoNaNCheck(headers) ==
  LET limit == headers.limit
      remaining == headers.remaining
      reset == headers.reset
  IN  IF Truthy(limit) /\ Truthy(remaining) /\ Truthy(reset)
        THEN [set |-> TRUE, limit |-> parseInt(limit.text).value,
              remaining |-> parseInt(remaining.text).value,
              reset |-> parseInt(reset.text).value * 1000]
        ELSE NoRateLimit

parseRateLimitHeaders(headers) ==
  LET limit == headers.limit
      remaining == headers.remaining
      reset == headers.reset
  IN  IF Truthy(limit) /\ Truthy(remaining) /\ Truthy(reset)
        THEN LET limitNum == parseInt(limit.text)
                 remainingNum == parseInt(remaining.text)
                 resetNum == parseInt(reset.text)
             IN  IF ~limitNum.nan /\ ~remainingNum.nan /\ ~resetNum.nan
                   THEN [set |-> TRUE, limit |-> limitNum.value,
                         remaining |-> remainingNum.value,
                         reset |-> resetNum.value * 1000]
                   ELSE NoRateLimit
        ELSE NoRateLimit

(***************************************************************************)
(* this._lastRateLimit = rateLimitInfo, if rateLimitInfo is not null: the  *)
(* stored snapshot is replaced as a whole.                                 *)
(***************************************************************************)
StoreRateLimit_FieldByField(stored, rateLimitInfo) ==
  IF rateLimitInfo.set
    THEN IF stored.set THEN [rateLimitInfo EXCEPT !.limit = stored.limit]
                       ELSE rateLimitInfo
    ELSE stored

StoreRateLimit(stored, rateLimitInfo) ==
  IF rateLimitInfo.set THEN rateLimitInfo ELSE stored

(***************************************************************************)
(* Response bodies.  fmt says what the body is: "nested" a JSON object     *)
(* with a nested error description, "flat" a JSON object without one,      *)
(* "text" text that is not JSON, "unreadable" a body whose stream fails.   *)
(* An absent field of the error description is the empty string.           *)
(***************************************************************************)
JsonResolves(body) == body.fmt \in {"nested", "flat"}
TextResolves(body) == body.fmt # "unreadable"

(***************************************************************************)
(* handleErrorResponse, first half: the best-effort error message.         *)
(***************************************************************************)
ErrorMessageOf_CodeBeforeParam(response) ==
  IF response.contentTypeJson
    THEN IF JsonResolves(response.body)
           THEN LET errorObj == IF response.body.fmt = "nested"
                                  THEN response.body
                                  ELSE [message |-> "", param |-> "", code |-> ""]
                    m0 == IF errorObj.message # "" THEN <<errorObj.message>>
                                                   ELSE <<"Unknown error">>
                    m1 == IF errorObj.code # ""
                            THEN m0 \o <<" [", errorObj.code, "]">>
                            ELSE m0
                IN  IF errorObj.param # ""
                      THEN m1 \o <<" (parameter: ", errorObj.param, ")">>
                      ELSE m1
           ELSE IF response.statusText # "" THEN <<response.statusText>>
                                            ELSE <<"Unknown error">>
    ELSE IF TextResolves(response.body)
           THEN <<response.body.raw>>
           ELSE IF response.statusText # "" THEN <<response.statusText>>
                                            ELSE <<"Unknown error">>

ErrorMessageOf_RawTextAfterJson(response) ==
  IF response.contentTypeJson /\ JsonResolves(response.body)
    THEN LET errorObj == IF response.body.fmt = "nested"
                           THEN response.body
                           ELSE [message |-> "", param |-> "", code |-> ""]
             m0 == IF errorObj.message # "" THEN <<errorObj.message>>
                                            ELSE <<"Unknown error">>
             m1 == IF errorObj.param # ""
                     THEN m0 \o <<" (parameter: ", errorObj.param, ")">>
                     ELSE m0
         IN  IF errorObj.code # ""
               THEN m1 \o <<" [", errorObj.code, "]">>
               ELSE m1
    ELSE IF TextResolves(response.body)
           THEN <<response.body.raw>>
           ELSE IF response.statusText # "" THEN <<response.statusText>>
                                            ELSE <<"Unknown error">>

ErrorMessageOf(response) ==
  IF response.contentTypeJson
    THEN IF JsonResolves(response.body)
           THEN LET errorObj == IF response.body.fmt = "nested"
                                  THEN response.body
                                  ELSE [message |-> "", param |-> "", code |-> ""]
                    m0 == IF errorObj.message # "" THEN <<errorObj.message>>
                                                   ELSE <<"Unknown error">>
                    m1 == IF errorObj.param # ""
                            THEN m0 \o <<" (parameter: ", errorObj.param, ")">>
                            ELSE m0
                IN  IF errorObj.code # ""
                      THEN m1 \o <<" [", errorObj.code, "]">>
                      ELSE m1
           ELSE IF response.statusText # "" THEN <<response.statusText>>
                                            ELSE <<"Unknown error">>
    ELSE IF TextResolves(response.body)
           THEN <<response.body.raw>>
           ELSE IF response.statusText # "" THEN <<response.statusText>>
                                            ELSE <<"Unknown error">>

(***************************************************************************)
(* handleErrorResponse, second half: the error thrown for a status code.   *)
(***************************************************************************)
handleErrorResponse_Every5xxRetryable(response) ==
  LET errorMessage == ErrorMessageOf(response)
      status == response.status
  IN  CASE status = 401 ->
             WirePusherError(<<"Invalid token. Please check your credentials.">>,
                             ErrorCode.AUTH_INVALID, FALSE)
        [] status = 403 ->
             WirePusherError(<<"Forbidden: Your account may be disabled or you don't have permission.">>,
                             ErrorCode.AUTH_FORBIDDEN, FALSE)
        [] status = 400 ->
             WirePusherError(<<"Invalid parameters: ">> \o errorMessage,
                             ErrorCode.VALIDATION_ERROR, FALSE)
        [] status = 404 ->
             WirePusherError(<<"Resource not found: ">> \o errorMessage,
                             ErrorCode.NOT_FOUND, FALSE)
        [] status = 429 ->
             LET rateLimitError ==
                   WirePusherError(<<"Rate limit exceeded: ">> \o errorMessage,
                                   ErrorCode.RATE_LIMIT, TRUE)
                 retryAfterHeader == response.retryAfter
             IN  IF Truthy(retryAfterHeader)
                     /\ ~parseInt(retryAfterHeader.text).nan
                   THEN [rateLimitError EXCEPT !.retryAfterSeconds =
                           Num(parseInt(retryAfterHeader.text).value)]
                   ELSE rateLimitError
        [] status >= 500 ->
             WirePusherError(<<"API error (", ToString(status), "): ">> \o errorMessage,
                             ErrorCode.SERVER_ERROR, TRUE)
        [] OTHER ->
             WirePusherError(<<"API error (", ToString(status), "): ">> \o errorMessage,
                             ErrorCode.UNKNOWN, FALSE)

handleErrorResponse_HintWithoutNaNCheck(response) ==
  LET errorMessage == ErrorMessageOf(response)
      status == response.status
  IN  CASE status = 401 ->
             WirePusherError(<<"Invalid token. Please check your credentials.">>,
                             ErrorCode.AUTH_INVALID, FALSE)
        [] status = 403 ->
             WirePusherError(<<"Forbidden: Your account may be disabled or you don't have permission.">>,
                             ErrorCode.AUTH_FORBIDDEN, FALSE)
        [] status = 400 ->
             WirePusherError(<<"Invalid parameters: ">> \o errorMessage,
                             ErrorCode.VALIDATION_ERROR, FALSE)
        [] status = 404 ->
             WirePusherError(<<"Resource not found: ">> \o errorMessage,
                             ErrorCode.NOT_FOUND, FALSE)
        [] status = 429 ->
             LET rateLimitError ==
                   WirePusherError(<<"Rate limit exceeded: ">> \o errorMessage,
                                   ErrorCode.RATE_LIMIT, TRUE)
                 retryAfterHeader == response.retryAfter
             IN  IF Truthy(retryAfterHeader)
                   THEN [rateLimitError EXCEPT !.retryAfterSeconds =
                           Num(parseInt(retryAfterHeader.text).value)]
                   ELSE rateLimitError
        [] status \in {500, 502, 503, 504} ->
             WirePusherError(<<"API error (", ToString(status), "): ">> \o errorMessage,
                             ErrorCode.SERVER_ERROR, TRUE)
        [] OTHER ->
             WirePusherError(<<"API error (", ToString(status), "): ">> \o errorMessage,
                             ErrorCode.UNKNOWN, FALSE)

handleErrorResponse(response) ==
  LET errorMessage == ErrorMessageOf(response)
      status == response.status
  IN  CASE status = 401 ->
             WirePusherError(<<"Invalid token. Please check your credentials.">>,
                             ErrorCode.AUTH_INVALID, FALSE)
        [] status = 403 ->
             WirePusherError(<<"Forbidden: Your account may be disabled or you don't have permission.">>,
                             ErrorCode.AUTH_FORBIDDEN, FALSE)
        [] status = 400 ->
             WirePusherError(<<"Invalid parameters: ">> \o errorMessage,
                             ErrorCode.VALIDATION_ERROR, FALSE)
        [] status = 404 ->
             WirePusherError(<<"Resource not found: ">> \o errorMessage,
                             ErrorCode.NOT_FOUND, FALSE)
        [] status = 429 ->
             LET rateLimitError ==
                   WirePusherError(<<"Rate limit exceeded: ">> \o errorMessage,
                                   ErrorCode.RATE_LIMIT, TRUE)
                 retryAfterHeader == response.retryAfter
             IN  IF Truthy(retryAfterHeader)
                     /\ ~parseInt(retryAfterHeader.text).nan
                   THEN [rateLimitError EXCEPT !.retryAfterSeconds =
                           Num(parseInt(retryAfterHeader.text).value)]
                   ELSE rateLimitError
        [] status \in {500, 502, 503, 504} ->
             WirePusherError(<<"API error (", ToString(status), "): ">> \o errorMessage,
                             ErrorCode.SERVER_ERROR, TRUE)
        [] OTHER ->
             WirePusherError(<<"API error (", ToString(status), "): ">> \o errorMessage,
                             ErrorCode.UNKNOWN, FALSE)

(***************************************************************************)
(* The catch block of sendRequest for a value thrown by fetch or by        *)
(* response.json(): thrown is [isError, name, message].                    *)
(***************************************************************************)
SendRequestCatch_NonErrorRetryable(thrown) ==
  IF thrown.isError /\ thrown.name = "AbortError"
    THEN WirePusherError(<<"Request timeout after ", "timeout", "ms">>,
                         ErrorCode.TIMEOUT, TRUE)
    ELSE IF thrown.isError
           THEN WirePusherError(<<"Network error: ", thrown.message>>,
                                ErrorCode.NETWORK_ERROR, TRUE)
           ELSE WirePusherError(<<"Unexpected error: ", thrown.message>>,
                                ErrorCode.UNKNOWN, TRUE)

SendRequestCatch_RethrowsNonError(thrown) ==
  IF thrown.isError /\ thrown.name = "AbortError"
    THEN WirePusherError(<<"Request timeout after ", "timeout", "ms">>,
                         ErrorCode.TIMEOUT, TRUE)
    ELSE IF thrown.isError
           THEN WirePusherError(<<"Network error: ", thrown.message>>,
                                ErrorCode.NETWORK_ERROR, TRUE)
           ELSE RawError(thrown.message)

SendRequestCatch_AbortAsNetwork(thrown) ==
  IF thrown.isError
    THEN WirePusherError(<<"Network error: ", thrown.message>>,
                         ErrorCode.NETWORK_ERROR, TRUE)
    ELSE WirePusherError(<<"Unexpected error: ", thrown.message>>,
                         ErrorCode.UNKNOWN, FALSE)

SendRequestCatch(thrown) ==
  IF thrown.isError /\ thrown.name = "AbortError"
    THEN WirePusherError(<<"Request timeout after ", "timeout", "ms">>,
                         ErrorCode.TIMEOUT, TRUE)
    ELSE IF thrown.isError
           THEN WirePusherError(<<"Network error: ", thrown.message>>,
                                ErrorCode.NETWORK_ERROR, TRUE)
           ELSE WirePusherError(<<"Unexpected error: ", thrown.message>>,
                                ErrorCode.UNKNOWN, FALSE)

(***************************************************************************)
(* response.ok: a status in 200..299.                                      *)
(***************************************************************************)
Ok_Only200(response) == response.status = 200

Ok(response) == response.status >= 200 /\ response.status <= 299

(***************************************************************************)
(* Inputs: what the transport can hand to one attempt.                     *)
(***************************************************************************)
Statuses == {200, 204, 302, 400, 401, 403, 404, 418, 429, 500, 501, 502, 503, 504}

Body(fmt, message, param, code, raw) ==
  [fmt |-> fmt, message |-> message, param |-> param, code |-> code, raw |-> raw]

BodyNested == Body("nested", "Server error", "", "", "{error:{message}}")
BodyNestedFull == Body("nested", "Bad title", "title", "E42", "{error:{message,param,code}}")
BodyNestedParam == Body("nested", "Bad title", "title", "", "{error:{message,param}}")
BodyNestedCode == Body("nested", "Bad title", "", "E42", "{error:{message,code}}")
BodyNestedBare == Body("nested", "", "", "", "{error:{}}")
BodyFlat == Body("flat", "Notification sent", "", "", "{status,message}")
BodyFlatError == Body("flat", "User not found", "", "", "{message}")
BodyText == Body("text", "", "", "", "Bad Gateway")
BodyEmpty == Body("text", "", "", "", "")
BodyUnreadable == Body("unreadable", "", "", "", "")

Bodies == {BodyNested, BodyNestedFull, BodyNestedParam, BodyNestedCode,
           BodyNestedBare, BodyFlat, BodyFlatError, BodyText, BodyEmpty,
           BodyUnreadable}

RetryAfterValues ==
  {Null, Str(<<"0">>), Str(<<"1", "0">>), Str(<<"6", "0">>), Str(<<"s", "o", "o", "n">>)}

(***************************************************************************)
(* The RateLimit-Limit, RateLimit-Remaining and RateLimit-Reset headers of *)
(* a response: absent, two complete sets, one with only the first header,  *)
(* and two with one header that is no number.                              *)
(***************************************************************************)
RateLimitHeaders(limit, remaining, reset) ==
  [limit |-> limit, remaining |-> remaining, reset |-> reset]

NoRateLimitHeaders == RateLimitHeaders(Null, Null, Null)

RateLimitHeaderValues ==
  {NoRateLimitHeaders,
   RateLimitHeaders(Str(<<"1", "0", "0">>), Str(<<"9", "5">>), Str(<<"1", "7">>)),
   RateLimitHeaders(Str(<<"5", "0">>), Str(<<"0">>), Str(<<"9", "9">>)),
   RateLimitHeaders(Str(<<"1", "0", "0">>), Null, Null),
   RateLimitHeaders(Str(<<"n", "a", "n">>), Str(<<"9", "5">>), Str(<<"1", "7">>)),
   RateLimitHeaders(Str(<<"7", "0">>), Str(<<"6", "9">>), Str(<<"x">>))}

Response(status, retryAfter, contentTypeJson, body, statusText) ==
  [status |-> status, retryAfter |-> retryAfter,
   contentTypeJson |-> contentTypeJson, body |-> body, statusText |-> statusText,
   rateLimit |-> NoRateLimitHeaders]

WithRateLimit(response, headers) == [response EXCEPT !.rateLimit = headers]

PlainResponses ==
  {Response(st, Null, TRUE, BodyNested, "Status Text") : st \in Statuses}
  \cup {Response(400, Null, TRUE, b, "Bad Request") : b \in Bodies}
  \cup {Response(st, Null, TRUE, BodyNestedFull, "Status Text") : st \in {401, 404, 500}}
  \cup {Response(400, Null, FALSE, b, "Bad Request") :
          b \in {BodyText, BodyEmpty, BodyUnreadable}}
  \cup {Response(400, Null, ct, BodyUnreadable, "") : ct \in BOOLEAN}
  \cup {Response(200, Null, TRUE, b, "OK") : b \in {BodyFlat, BodyText, BodyUnreadable}}
  \cup {Response(204, Null, FALSE, BodyEmpty, "No Content"),
        Response(500, Null, FALSE, BodyText, "Internal Server Error")}
  \cup {Response(429, ra, TRUE, BodyNested, "Too Many Requests") : ra \in RetryAfterValues}
  \cup {Response(503, Str(<<"1", "0">>), TRUE, BodyNested, "Service Unavailable")}
  \cup {Response(404, Null, TRUE, b, "Not Found") : b \in {BodyText, BodyFlatError}}
  \cup {Response(500, Null, TRUE, BodyFlatError, "Internal Server Error")}
  \cup {Response(st, Null, ct, b, "Status Text") :
          st \in {302, 401, 429, 500}, ct \in BOOLEAN,
          b \in {BodyFlat, BodyText, BodyUnreadable}}

(***************************************************************************)
(* The responses that are also seen with each set of rate-limit headers.   *)
(***************************************************************************)
RateLimitedResponses ==
  {Response(200, Null, TRUE, BodyFlat, "OK"),
   Response(204, Null, FALSE, BodyEmpty, "No Content"),
   Response(429, Null, TRUE, BodyNested, "Too Many Requests"),
   Response(500, Null, FALSE, BodyText, "Internal Server Error")}

Responses ==
  PlainResponses
  \cup {WithRateLimit(r, h) : r \in RateLimitedResponses, h \in RateLimitHeaderValues}

Thrown(isError, name, message) ==
  [isError |-> isError, name |-> name, message |-> message]

AbortError == Thrown(TRUE, "AbortError", "This operation was aborted")
FetchFailed == Thrown(TRUE, "TypeError", "fetch failed")
NonError == Thrown(FALSE, "", "string error")
JsonSyntaxError == Thrown(TRUE, "SyntaxError", "Unexpected token")
BodyStreamError == Thrown(TRUE, "TypeError", "terminated")

FetchRejections == {FetchFailed, NonError}

(***************************************************************************)
(* The values of maxRetries the client is built with: a negative one, 0    *)
(* (retries disabled), 1, the default 3, and the largest of the model.     *)
(***************************************************************************)
RetryLimits == {-1, 0, 1, 3, MaxRetries}

(***************************************************************************)
(* An optional property of an options object or of a request body: given   *)
(* with a value, or undefined.  Texts are strings; a tag is the tuple of   *)
(* its characters and tags are a tuple of tags.                            *)
(***************************************************************************)
Given(v) == [given |-> TRUE, value |-> v]
NotGiven == [given |-> FALSE, value |-> ""]
NoTags == [given |-> FALSE, value |-> <<>>]
NoIv == [given |-> FALSE, value |-> <<>>]

(***************************************************************************)
(* normalizeTags: lowercase, trim, strip what is not a-z, 0-9, - or _,     *)
(* drop the empty tags and the duplicates.                                 *)
(***************************************************************************)
ToLowerCase(ch) ==
  CASE ch = "A" -> "a" [] ch = "B" -> "b" [] ch = "P" -> "p" [] OTHER -> ch

AllowedTagChars ==
  {"a", "b", "c", "d", "e", "f", "g", "h", "i", "j", "k", "l", "m", "n", "o", "p",
   "q", "r", "s", "t", "u", "v", "w", "x", "y", "z", "0", "1", "2", "3", "4", "5",
   "6", "7", "8", "9", "-", "_"}

RECURSIVE TrimStart(_)
TrimStart(t) == IF t # <<>> /\ Head(t) = " " THEN TrimStart(Tail(t)) ELSE t

RECURSIVE TrimEnd(_)
TrimEnd(t) ==
  IF t # <<>> /\ t[Len(t)] = " " THEN TrimEnd(SubSeq(t, 1, Len(t) - 1)) ELSE t

IsAllowedTagChar(ch) == ch \in AllowedTagChars

CleanTag(tag) ==
  LET cleaned == TrimEnd(TrimStart([i \in 1..Len(tag) |-> ToLowerCase(tag[i])]))
  IN  SelectSeq(cleaned, IsAllowedTagChar)

RECURSIVE Unique_KeepsLast(_)
Unique_KeepsLast(tags) ==
  IF tags = <<>>
    THEN <<>>
    ELSE LET rest == Unique_KeepsLast(Tail(tags))
         IN  IF \E i \in 1..Len(rest) : rest[i] = Head(tags)
               THEN rest
               ELSE <<Head(tags)>> \o rest

RECURSIVE Unique(_)
Unique(tags) ==
  IF tags = <<>>
    THEN <<>>
    ELSE LET rest == Unique(SubSeq(tags, 1, Len(tags) - 1))
             last == tags[Len(tags)]
         IN  IF \E i \in 1..Len(rest) : rest[i] = last THEN rest
                                                       ELSE Append(rest, last)

IsNonEmptyTag(tag) == Len(tag) > 0

normalizeTags(tags) ==
  IF Len(tags) = 0
    THEN <<>>
    ELSE LET normalized == SelectSeq([i \in 1..Len(tags) |-> CleanTag(tags[i])],
                                     IsNonEmptyTag)
         IN  Unique(normalized)

(***************************************************************************)
(* generateIV.  An IV is a tuple of IvLength bytes and its hex string the   *)
(* tuple of their hex digits.                                              *)
(***************************************************************************)
IvLength == 16

HexDigits ==
  <<"0", "1", "2", "3", "4", "5", "6", "7", "8", "9", "a", "b", "c", "d", "e", "f">>

RECURSIVE ToHex(_)
ToHex(bytes) ==
  IF bytes = <<>>
    THEN <<>>
    ELSE <<HexDigits[(Head(bytes) \div 16) + 1], HexDigits[(Head(bytes) % 16) + 1]>>
           \o ToHex(Tail(bytes))

generateIV(ivBytes) == <<ivBytes, ToHex(ivBytes)>>

IVs == {[i \in 1..IvLength |-> 0], [i \in 1..IvLength |-> (17 * i + 150) % 256]}

(***************************************************************************)
(*                       Encryption (src/src/crypto.ts)                    *)
(*                                                                         *)
(* A text that may be encrypted, and a ciphertext, is a sequence of        *)
(* Unicode code points; a Buffer is a sequence of bytes (0..255); a        *)
(* password is a string.                                                   *)
(* crypto records the invocations of the functions of the module when      *)
(* they are called on their own: the latest one, and the one before it.    *)
(***************************************************************************)
VARIABLE crypto

(***************************************************************************)
(* Buffer.from(text, 'utf8'): the UTF-8 encoding of code points.           *)
(***************************************************************************)
Utf8OfCodePoint(cp) ==
  IF cp < 128
    THEN <<cp>>
    ELSE IF cp < 2048
      THEN <<192 + (cp \div 64), 128 + (cp % 64)>>
      ELSE IF cp < 65536
        THEN <<224 + (cp \div 4096), 128 + ((cp \div 64) % 64), 128 + (cp % 64)>>
        ELSE <<240 + (cp \div 262144), 128 + ((cp \div 4096) % 64),
               128 + ((cp \div 64) % 64), 128 + (cp % 64)>>

RECURSIVE Utf8(_)
Utf8(text) ==
  IF text = <<>> THEN <<>> ELSE Utf8OfCodePoint(Head(text)) \o Utf8(Tail(text))

(***************************************************************************)
(* data.toString('base64'): three bytes give four characters of the        *)
(* alphabet A-Z a-z 0-9 + /, and the last group is filled up with =.       *)
(***************************************************************************)
Base64Alphabet ==
  [i \in 1..26 |-> 64 + i] \o [i \in 1..26 |-> 96 + i] \o [i \in 1..10 |-> 47 + i]
    \o <<43, 47>>

Base64Char(sextet) == Base64Alphabet[sextet + 1]

RECURSIVE Base64(_)
Base64(data) ==
  CASE Len(data) = 0 -> <<>>
    [] Len(data) = 1 ->
         <<Base64Char(data[1] \div 4), Base64Char((data[1] % 4) * 16), 61, 61>>
    [] Len(data) = 2 ->
         <<Base64Char(data[1] \div 4),
           Base64Char((data[1] % 4) * 16 + (data[2] \div 16)),
           Base64Char((data[2] % 16) * 4), 61>>
    [] OTHER ->
         <<Base64Char(data[1] \div 4),
           Base64Char((data[1] % 4) * 16 + (data[2] \div 16)),
           Base64Char((data[2] % 16) * 4 + (data[3] \div 64)),
           Base64Char(data[3] % 64)>>
           \o Base64(SubSeq(data, 4, Len(data)))

(***************************************************************************)
(* customBase64Encode: + becomes -, / becomes . and = becomes _.           *)
(***************************************************************************)
RECURSIVE ReplaceAll(_, _, _)
ReplaceAll(text, from, to) ==
  IF text = <<>>
    THEN <<>>
    ELSE <<IF Head(text) = from THEN to ELSE Head(text)>> \o ReplaceAll(Tail(text), from, to)

customBase64Encode_KeepsSlash(data) ==
  LET standard == Base64(data)
  IN  ReplaceAll(ReplaceAll(standard, 43, 45), 61, 95)

customBase64Encode(data) ==
  LET standard == Base64(data)
  IN  ReplaceAll(ReplaceAll(ReplaceAll(standard, 43, 45), 47, 46), 61, 95)

(***************************************************************************)
(* createHash('sha1').update(password, 'utf8').digest('hex'): the SHA-1    *)
(* digests of the passwords of the model.                                  *)
(***************************************************************************)
Sha1Hex(password) ==
  CASE password = "test_password_123" ->
         <<"5", "a", "0", "a", "e", "e", "0", "f", "3", "a", "f", "3", "0", "8", "c", "d", "6", "d", "7", "4",
           "d", "6", "1", "7", "f", "d", "e", "6", "5", "9", "2", "c", "2", "b", "c", "9", "4", "f", "a", "3">>
    [] password = "secret" ->
         <<"e", "5", "e", "9", "f", "a", "1", "b", "a", "3", "1", "e", "c", "d", "1", "a", "e", "8", "4", "f",
           "7", "5", "c", "a", "a", "a", "4", "7", "4", "f", "3", "a", "6", "6", "3", "f", "0", "5", "f", "4">>
    [] password = "" ->
         <<"d", "a", "3", "9", "a", "3", "e", "e", "5", "e", "6", "b", "4", "b", "0", "d", "3", "2", "5", "5",
           "b", "f", "e", "f", "9", "5", "6", "0", "1", "8", "9", "0", "a", "f", "d", "8", "0", "7", "0", "9">>

HexValue(digit) == CHOOSE v \in 0..15 : HexDigits[v + 1] = digit

RECURSIVE FromHex(_)
FromHex(hex) ==
  IF Len(hex) < 2
    THEN <<>>
    ELSE <<16 * HexValue(hex[1]) + HexValue(hex[2])>> \o FromHex(SubSeq(hex, 3, Len(hex)))

(***************************************************************************)
(* deriveEncryptionKey: the first 32 hex digits of the SHA-1 of the        *)
(* password, as 16 bytes.  The digits of the digest are lowercase, so      *)
(* toLowerCase leaves them as they are.                                    *)
(***************************************************************************)
deriveEncryptionKey(password) ==
  LET sha1Hash == Sha1Hex(password)
      keyHex == SubSeq(sha1Hash, 1, 32)
  IN  FromHex(keyHex)

(***************************************************************************)
(* applyPKCS7Padding.                                                      *)
(***************************************************************************)
BlockSize == 16

applyPKCS7Padding_NoFullBlock(data) ==
  LET paddingLength == (BlockSize - (Len(data) % BlockSize)) % BlockSize
      padding == [i \in 1..paddingLength |-> paddingLength]
  IN  data \o padding

applyPKCS7Padding(data) ==
  LET paddingLength == BlockSize - (Len(data) % BlockSize)
      padding == [i \in 1..paddingLength |-> paddingLength]
  IN  data \o padding

(***************************************************************************)
(* AES-128 (FIPS 197), the cipher behind createCipheriv('aes-128-cbc').    *)
(* A block and a round key are 16 bytes, column after column; w is the     *)
(* key schedule, 44 words of four bytes.                                   *)
(***************************************************************************)
SBox ==
  <<
     99, 124, 119, 123, 242, 107, 111, 197,  48,   1, 103,  43, 254, 215, 171, 118,
    202, 130, 201, 125, 250,  89,  71, 240, 173, 212, 162, 175, 156, 164, 114, 192,
    183, 253, 147,  38,  54,  63, 247, 204,  52, 165, 229, 241, 113, 216,  49,  21,
      4, 199,  35, 195,  24, 150,   5, 154,   7,  18, 128, 226, 235,  39, 178, 117,
      9, 131,  44,  26,  27, 110,  90, 160,  82,  59, 214, 179,  41, 227,  47, 132,
     83, 209,   0, 237,  32, 252, 177,  91, 106, 203, 190,  57,  74,  76,  88, 207,
    208, 239, 170, 251,  67,  77,  51, 133,  69, 249,   2, 127,  80,  60, 159, 168,
     81, 163,  64, 143, 146, 157,  56, 245, 188, 182, 218,  33,  16, 255, 243, 210,
    205,  12,  19, 236,  95, 151,  68,  23, 196, 167, 126,  61, 100,  93,  25, 115,
     96, 129,  79, 220,  34,  42, 144, 136,  70, 238, 184,  20, 222,  94,  11, 219,
    224,  50,  58,  10,  73,   6,  36,  92, 194, 211, 172,  98, 145, 149, 228, 121,
    231, 200,  55, 109, 141, 213,  78, 169, 108,  86, 244, 234, 101, 122, 174,   8,
    186, 120,  37,  46,  28, 166, 180, 198, 232, 221, 116,  31,  75, 189, 139, 138,
    112,  62, 181, 102,  72,   3, 246,  14,  97,  53,  87, 185, 134, 193,  29, 158,
    225, 248, 152,  17, 105, 217, 142, 148, 155,  30, 135, 233, 206,  85,  40, 223,
    140, 161, 137,  13, 191, 230,  66, 104,  65, 153,  45,  15, 176,  84, 187,  22
  >>

Rcon == <<1, 2, 4, 8, 16, 32, 64, 128, 27, 54>>

(***************************************************************************)
(* The exclusive or of two bytes, and the products in GF(2^8) that         *)
(* MixColumns takes.                                                       *)
(***************************************************************************)
RECURSIVE XorBits(_, _)
XorBits(a, b) ==
  IF a = 0 THEN b
  ELSE IF b = 0 THEN a
  ELSE ((a + b) % 2) + 2 * XorBits(a \div 2, b \div 2)

XorTable == [a \in 0..15 |-> [b \in 0..15 |-> XorBits(a, b)]]

Xor(a, b) == 16 * XorTable[a \div 16][b \div 16] + XorTable[a % 16][b % 16]

XorWord(x, y) == <<Xor(x[1], y[1]), Xor(x[2], y[2]), Xor(x[3], y[3]), Xor(x[4], y[4])>>

XorBlock(x, y) ==
  XorWord(SubSeq(x, 1, 4), SubSeq(y, 1, 4)) \o XorWord(SubSeq(x, 5, 8), SubSeq(y, 5, 8))
    \o XorWord(SubSeq(x, 9, 12), SubSeq(y, 9, 12))
    \o XorWord(SubSeq(x, 13, 16), SubSeq(y, 13, 16))

xtime(a) == IF a < 128 THEN 2 * a ELSE Xor((2 * a) % 256, 27)

RECURSIVE GMul(_, _)
GMul(a, n) ==
  IF n = 0
    THEN 0
    ELSE Xor(IF n % 2 = 1 THEN a ELSE 0, GMul(xtime(a), n \div 2))

Mul2 == [a \in 0..255 |-> GMul(a, 2)]
Mul3 == [a \in 0..255 |-> GMul(a, 3)]

SubWord(word) == <<SBox[word[1] + 1], SBox[word[2] + 1], SBox[word[3] + 1], SBox[word[4] + 1]>>
RotWord(word) == <<word[2], word[3], word[4], word[1]>>

RECURSIVE KeyExpansion(_)
KeyExpansion(w) ==
  IF Len(w) = 44
    THEN w
    ELSE LET i == Len(w)
             temp == IF i % 4 = 0
                       THEN XorWord(SubWord(RotWord(w[i])), <<Rcon[i \div 4], 0, 0, 0>>)
                       ELSE w[i]
         IN  KeyExpansion(Append(w, XorWord(w[i - 3], temp)))

KeySchedule(key) ==
  KeyExpansion(<<SubSeq(key, 1, 4), SubSeq(key, 5, 8), SubSeq(key, 9, 12), SubSeq(key, 13, 16)>>)

RoundKey(w, round) ==
  w[4 * round + 1] \o w[4 * round + 2] \o w[4 * round + 3] \o w[4 * round + 4]

SubBytes(state) ==
  SubWord(SubSeq(state, 1, 4)) \o SubWord(SubSeq(state, 5, 8))
    \o SubWord(SubSeq(state, 9, 12)) \o SubWord(SubSeq(state, 13, 16))

ShiftRows(state) ==
  <<state[1], state[6], state[11], state[16],
    state[5], state[10], state[15], state[4],
    state[9], state[14], state[3], state[8],
    state[13], state[2], state[7], state[12]>>

MixColumn(a) ==
  <<Xor(Xor(Mul2[a[1]], Mul3[a[2]]), Xor(a[3], a[4])),
    Xor(Xor(a[1], Mul2[a[2]]), Xor(Mul3[a[3]], a[4])),
    Xor(Xor(a[1], a[2]), Xor(Mul2[a[3]], Mul3[a[4]])),
    Xor(Xor(Mul3[a[1]], a[2]), Xor(a[3], Mul2[a[4]]))>>

MixColumns(state) ==
  MixColumn(SubSeq(state, 1, 4)) \o MixColumn(SubSeq(state, 5, 8))
    \o MixColumn(SubSeq(state, 9, 12)) \o MixColumn(SubSeq(state, 13, 16))

(***************************************************************************)
(* The state of the cipher after the initial round key and after each of   *)
(* the ten rounds; the last round has no MixColumns.                       *)
(***************************************************************************)
RECURSIVE CipherRounds(_, _)
CipherRounds(states, w) ==
  IF Len(states) = 11
    THEN states
    ELSE LET round == Len(states)
             state == ShiftRows(SubBytes(states[round]))
             mixed == IF round = 10 THEN state ELSE MixColumns(state)
         IN  CipherRounds(Append(states, XorBlock(mixed, RoundKey(w, round))), w)

Cipher(block, w) == CipherRounds(<<XorBlock(block, RoundKey(w, 0))>>, w)[11]

(***************************************************************************)
(* cipher.update(padded) and cipher.final() in CBC mode without automatic  *)
(* padding: each block is combined with the ciphertext block before it,    *)
(* the first with the IV.                                                  *)
(***************************************************************************)
RECURSIVE CbcBlocks(_, _, _, _)
CbcBlocks(encrypted, padded, w, iv) ==
  IF Len(encrypted) >= Len(padded)
    THEN encrypted
    ELSE LET done == Len(encrypted)
             previous == IF done = 0 THEN iv ELSE SubSeq(encrypted, done - 15, done)
             block == SubSeq(padded, done + 1, done + 16)
         IN  CbcBlocks(encrypted \o Cipher(XorBlock(block, previous), w), padded, w, iv)

CbcEncrypt_IgnoresIv(padded, key, iv) ==
  CbcBlocks(<<>>, padded, KeySchedule(key), [i \in 1..BlockSize |-> 0])

CbcEncrypt(padded, key, iv) == CbcBlocks(<<>>, padded, KeySchedule(key), iv)

(***************************************************************************)
(* encryptMessage.  The cipher does no padding of its own                  *)
(* (setAutoPadding(false)); createCipheriv takes a key and an IV of 16     *)
(* bytes.                                                                  *)
(***************************************************************************)
encryptMessage_AutoPadding(plaintext, password, iv) ==
  LET key == deriveEncryptionKey(password)
      plaintextBytes == Utf8(plaintext)
      padded == applyPKCS7Padding(plaintextBytes)
      encrypted == CbcEncrypt(applyPKCS7Padding(padded), key, iv)
  IN  customBase64Encode(encrypted)

encryptMessage_CallCounter(plaintext, password, iv) ==
  LET key == deriveEncryptionKey(password)
      plaintextBytes == Utf8(plaintext)
      padded == applyPKCS7Padding(plaintextBytes)
      count == IF crypto.last.fn = "encryptMessage" THEN 1 ELSE 0
      encrypted == CbcEncrypt(padded, key, [iv EXCEPT ![1] = (iv[1] + count) % 256])
  IN  customBase64Encode(encrypted)

encryptMessage(plaintext, password, iv) ==
  LET key == deriveEncryptionKey(password)
      plaintextBytes == Utf8(plaintext)
      padded == applyPKCS7Padding(plaintextBytes)
      encrypted == CbcEncrypt(padded, key, iv)
  IN  customBase64Encode(encrypted)

(***************************************************************************)
(* The options of send() and the body it builds from them; ivBytes is what *)
(* randomBytes returns if generateIV is called.                            *)
(***************************************************************************)
NotificationOptions(title, message, type, tags, imageURL, actionURL, encryptionPassword) ==
  [title |-> title, message |-> message, type |-> type, tags |-> tags,
   imageURL |-> imageURL, actionURL |-> actionURL,
   encryptionPassword |-> encryptionPassword]

SendBody(options, ivBytes) ==
  LET encrypt == options.encryptionPassword.given
                   /\ options.encryptionPassword.value # ""
      iv == generateIV(ivBytes)
      finalMessage == IF encrypt
                        THEN encryptMessage(options.message,
                                            options.encryptionPassword.value, iv[1])
                        ELSE options.message
      ivHex == IF encrypt THEN Given(iv[2]) ELSE NoIv
      normalizedTags == IF options.tags.given
                          THEN Given(normalizeTags(options.tags.value))
                          ELSE NoTags
  IN  [title |-> options.title,
       message |-> finalMessage,
       type |-> options.type,
       tags |-> IF normalizedTags.given /\ Len(normalizedTags.value) > 0
                  THEN normalizedTags ELSE NoTags,
       imageURL |-> options.imageURL,
       actionURL |-> options.actionURL,
       iv |-> ivHex]

NotifaiBody(text, type) == [text |-> text, type |-> type]

(***************************************************************************)
(* The message "Message".                                                  *)
(***************************************************************************)
MessageText == <<77, 101, 115, 115, 97, 103, 101>>

TagLists ==
  {<<>>,
   <<<<"P", "r", "o", "d">>, <<" ", "a", "b", " ">>, <<"p", "r", "o", "d">>>>,
   <<<<"@", "@">>, <<" ">>>>,
   <<<<"a", "-", "1">>, <<"b", "_", "@", "2">>>>}

(***************************************************************************)
(* Every list of at most MaxTags tags drawn from TagSamples, and the       *)
(* options of a send() that carries such a list.                           *)
(***************************************************************************)
TagSamples ==
  {<<"A", "b">>, <<" ", "a", "b", " ">>, <<"a", "@", "b">>, <<"@", "!">>,
   <<"b", "-", "_", "1">>, <<>>}

AllTagLists == UNION {[1..n -> TagSamples] : n \in 0..MaxTags}

TaggedOptions ==
  {NotificationOptions("Title", MessageText, NotGiven, Given(tags), NotGiven,
                       NotGiven, NotGiven) : tags \in AllTagLists}

SendOptions ==
  {NotificationOptions("Title", message, type, tags, imageURL, actionURL, password) :
     message \in {MessageText, <<>>},
     type \in {NotGiven, Given("alert")},
     tags \in {NoTags} \cup {Given(t) : t \in TagLists},
     imageURL \in {NotGiven, Given("https://example.com/img.png")},
     actionURL \in {NotGiven, Given("https://example.com/details")},
     password \in {NotGiven, Given(""), Given("test_password_123")}}

SimpleOptions(title, message) ==
  NotificationOptions(title, message, NotGiven, NoTags, NotGiven, NotGiven, NotGiven)

NoOptions == SimpleOptions("", <<>>)
NoRequestBody == NotifaiBody("", NotGiven)

(***************************************************************************)
(* State.  maxRetries and lastRateLimit belong to the client; pc,          *)
(* endpoint, attempt, lastError, resp and delay are the local state of     *)
(* the running call; raised and result are what the call hands to its      *)
(* caller; sleepTimer is the timer of sleep ("none", "pending", "fired").  *)
(* options is the argument of the running call and requestBody the body  *)
(* built from it, which every attempt of the call posts.                   *)
(* calls holds the local state of the calls that run concurrently on the  *)
(* client in ConcurrentSpec.                                               *)
(* timeoutTimer is the timer of the attempt's AbortController: "none",     *)
(* "armed", or "stale" once its fetch has rejected without clearing it;    *)
(* timeoutLeft is the time left on it.  A stale timer is followed until    *)
(* it fires or the next attempt arms its own.                              *)
(* netCalls, waits, inFlight, failed and outcome record what the call has  *)
(* done: the fetches it issued, the sleeps it started, the fetches not     *)
(* yet settled, the attempts that threw, and how its latest attempt ended. *)
(***************************************************************************)
VARIABLES maxRetries, lastRateLimit, pc, endpoint, attempt, lastError, resp,
          delay, sleepTimer, raised, result, netCalls, waits, inFlight, failed,
          outcome, timeoutTimer, timeoutLeft, options, requestBody, calls,
          staleTimers

vars == <<maxRetries, lastRateLimit, pc, endpoint, attempt, lastError, resp,
          delay, sleepTimer, raised, result, netCalls, waits, inFlight, failed,
          outcome, timeoutTimer, timeoutLeft, options, requestBody, calls, crypto,
          staleTimers>>

NoResponse == Response(0, Null, FALSE, BodyEmpty, "")
NoBody == Body("none", "", "", "", "")

(***************************************************************************)
(* The calls that run concurrently on one client, and the local state of   *)
(* a call that has not started.                                            *)
(***************************************************************************)
Calls == {1, 2}

IdleCall ==
  [pc |-> "idle", attempt |-> 0, lastError |-> NoError, resp |-> NoResponse,
   delay |-> 0, raised |-> NoError, result |-> NoBody,
   netCalls |-> 0, waits |-> 0, failed |-> 0]
NoOutcome ==
  [n |-> 0, kind |-> "none", error |-> NoError, body |-> NoBody,
   request |-> [url |-> <<>>, method |-> "", authorization |-> <<>>, body |-> <<>>]]

(***************************************************************************)
(* An invocation of a function of the encryption module: the function,     *)
(* its arguments and what it returned.                                     *)
(***************************************************************************)
Invocation(fn, args, out) == [fn |-> fn, args |-> args, out |-> out]
NoInvocation == Invocation("none", <<>>, <<>>)

Init ==
  /\ maxRetries \in RetryLimits
  /\ lastRateLimit = NoRateLimit
  /\ pc = "idle"
  /\ endpoint = "/send"
  /\ attempt = 0
  /\ lastError = NoError
  /\ resp = NoResponse
  /\ delay = 0
  /\ sleepTimer = "none"
  /\ raised = NoError
  /\ result = NoBody
  /\ netCalls = 0
  /\ waits = 0
  /\ inFlight = 0
  /\ failed = 0
  /\ outcome = NoOutcome
  /\ timeoutTimer = "none"
  /\ timeoutLeft = 0
  /\ options = NoOptions
  /\ requestBody = NoRequestBody
  /\ calls = [c \in Calls |-> IdleCall]
  /\ crypto = [last |-> NoInvocation, before |-> NoInvocation]
  /\ staleTimers = 0

(***************************************************************************)
(* What sendRequest hands to fetch for an endpoint and a body: the URL,    *)
(* the method, the Authorization header built from the token of the        *)
(* client, and JSON.stringify(body), the properties of the body that are   *)
(* defined, in the order in which send() and notifai() set them.           *)
(***************************************************************************)
OptionalProperty(key, property) ==
  IF property.given THEN <<<<key, property.value>>>> ELSE <<>>

JsonStringify(body) ==
  IF "text" \in DOMAIN body
    THEN <<<<"text", body.text>>>> \o OptionalProperty("type", body.type)
    ELSE <<<<"title", body.title>>, <<"message", body.message>>>>
           \o OptionalProperty("type", body.type)
           \o OptionalProperty("tags", body.tags)
           \o OptionalProperty("imageURL", body.imageURL)
           \o OptionalProperty("actionURL", body.actionURL)
           \o OptionalProperty("iv", body.iv)

FetchArguments(ep, body) ==
  [url |-> <<"https://api.wirepusher.dev", ep>>,
   method |-> "POST",
   authorization |-> <<"Bearer ", "abc12345">>,
   body |-> JsonStringify(body)]

(***************************************************************************)
(* setTimeout(() => controller.abort(), this.timeout): the time the timer  *)
(* of a new attempt is armed with; left is what the timer before it had.   *)
(***************************************************************************)
ArmTimeout_SharedDeadline(left) == left

ArmTimeout(left) == Timeout

(***************************************************************************)
(* requestFn(): sendRequest up to its first await, the call of fetch.      *)
(***************************************************************************)
IssueFetch ==
  /\ pc' = "fetch"
  /\ netCalls' = netCalls + 1
  /\ inFlight' = inFlight + 1
  /\ outcome' = [n |-> netCalls, kind |-> "pending", error |-> NoError, body |-> NoBody,
                  request |-> FetchArguments(endpoint', requestBody')]
  /\ timeoutTimer' = "armed"
  /\ timeoutLeft' = ArmTimeout(timeoutLeft)

(***************************************************************************)
(* The throw after the loop of executeWithRetry.                           *)
(***************************************************************************)
ThrowAfterLoop ==
  /\ pc' = "failed"
  /\ raised' = IF lastError # NoError
                 THEN lastError
                 ELSE WirePusherError(<<"Unknown error">>, ErrorCode.UNKNOWN, FALSE)
  /\ UNCHANGED <<netCalls, inFlight, outcome, timeoutTimer, timeoutLeft>>

(***************************************************************************)
(* The catch block of executeWithRetry for an error thrown by requestFn.   *)
(***************************************************************************)
CatchBlock_EarlierHintSticks(error) ==
  /\ failed' = failed + 1
  /\ outcome' = [outcome EXCEPT !.kind = "failure", !.error = error]
  /\ IF ~InstanceOfWirePusherError(error)
       THEN /\ pc' = "failed"
            /\ raised' = error
            /\ UNCHANGED <<lastError, delay, sleepTimer, waits>>
       ELSE /\ lastError' = error
            /\ IF ShouldThrow(error, attempt, maxRetries)
                 THEN /\ pc' = "failed"
                      /\ raised' = error
                      /\ UNCHANGED <<delay, sleepTimer, waits>>
                 ELSE /\ pc' = "wait"
                      /\ delay' = IF lastError.retryAfterSeconds.defined
                          THEN lastError.retryAfterSeconds.value * 1000
                          ELSE RetryDelay(error, attempt)
                      /\ sleepTimer' = "pending"
                      /\ waits' = waits + 1
                      /\ UNCHANGED raised

CatchBlock(error) ==
  /\ failed' = failed + 1
  /\ outcome' = [outcome EXCEPT !.kind = "failure", !.error = error]
  /\ IF ~InstanceOfWirePusherError(error)
       THEN /\ pc' = "failed"
            /\ raised' = error
            /\ UNCHANGED <<lastError, delay, sleepTimer, waits>>
       ELSE /\ lastError' = error
            /\ IF ShouldThrow(error, attempt, maxRetries)
                 THEN /\ pc' = "failed"
                      /\ raised' = error
                      /\ UNCHANGED <<delay, sleepTimer, waits>>
                 ELSE /\ pc' = "wait"
                      /\ delay' = RetryDelay(error, attempt)
                      /\ sleepTimer' = "pending"
                      /\ waits' = waits + 1
                      /\ UNCHANGED raised

(***************************************************************************)
(* executeWithRetry up to its first await, for a call to endpoint ep with  *)
(* the argument opts.                                                      *)
(***************************************************************************)
StartCall(ep, opts) ==
  /\ pc = "idle"
  /\ endpoint' = ep
  /\ options' = opts
  /\ attempt' = 0
  /\ IF LoopCondition(0, maxRetries)
       THEN IssueFetch /\ UNCHANGED raised
       ELSE ThrowAfterLoop
  /\ UNCHANGED <<crypto, calls, staleTimers, maxRetries, lastRateLimit, lastError, resp, delay, sleepTimer,
                 result, waits, failed>>

(***************************************************************************)
(* send(opts): encrypt the message if a password is given, normalize the   *)
(* tags, build the body and enter executeWithRetry.                        *)
(***************************************************************************)
Send(opts, ivBytes) ==
  /\ pc = "idle"
  /\ requestBody' = SendBody(opts, ivBytes)
  /\ StartCall("/send", opts)

(***************************************************************************)
(* notifai(text, type): build the body and enter executeWithRetry.         *)
(***************************************************************************)
Notifai(text, type) ==
  /\ pc = "idle"
  /\ requestBody' = NotifaiBody(text, type)
  /\ StartCall("/notifai", [text |-> text, type |-> type])

(***************************************************************************)
(* fetch resolves with a response: the timeout is cleared, the rate-limit  *)
(* headers are parsed and stored, and the body is read (response.json()    *)
(* of a 2xx response, handleErrorResponse otherwise).                      *)
(***************************************************************************)
FetchResolve(response) ==
  /\ pc = "fetch"
  /\ LET rateLimitInfo == parseRateLimitHeaders(response.rateLimit)
     IN  lastRateLimit' = StoreRateLimit(lastRateLimit, rateLimitInfo)
  /\ resp' = response
  /\ pc' = "body"
  /\ timeoutTimer' = "none"
  /\ timeoutLeft' = 0
  /\ UNCHANGED <<crypto, calls, staleTimers, maxRetries, endpoint, attempt, lastError, delay, sleepTimer,
                 raised, result, netCalls, waits, inFlight, failed, outcome,
                 options, requestBody>>

(***************************************************************************)
(* fetch rejects: sendRequest turns the thrown value into a library error  *)
(* and executeWithRetry catches it.                                        *)
(***************************************************************************)
FetchReject(thrown) ==
  /\ pc = "fetch"
  /\ LET error == SendRequestCatch(thrown)
     IN  CatchBlock(error)
  /\ inFlight' = inFlight - 1
  /\ timeoutTimer' = "stale"
  /\ UNCHANGED <<crypto, calls, staleTimers, maxRetries, lastRateLimit, endpoint, attempt, resp, result, netCalls,
                 timeoutLeft,
                 options, requestBody>>

(***************************************************************************)
(* Time passes on the timer of the AbortController.                        *)
(***************************************************************************)
Tick ==
  /\ timeoutTimer \in {"armed", "stale"}
  /\ timeoutLeft > 0
  /\ timeoutLeft' = timeoutLeft - 1
  /\ UNCHANGED <<crypto, calls, staleTimers, maxRetries, lastRateLimit, pc, endpoint, attempt, lastError, resp,
                 delay, sleepTimer, raised, result, netCalls, waits, inFlight,
                 failed, outcome, timeoutTimer,
                 options, requestBody>>

(***************************************************************************)
(* The timer fires while fetch is pending: controller.abort() makes fetch  *)
(* reject with an AbortError, which sendRequest turns into a library error *)
(* and executeWithRetry catches.                                           *)
(***************************************************************************)
TimeoutFires ==
  /\ pc = "fetch"
  /\ timeoutTimer = "armed"
  /\ timeoutLeft = 0
  /\ timeoutTimer' = "none"
  /\ LET error == SendRequestCatch(AbortError)
     IN  CatchBlock(error)
  /\ inFlight' = inFlight - 1
  /\ UNCHANGED <<crypto, calls, staleTimers, maxRetries, lastRateLimit, endpoint, attempt, resp, result, netCalls,
                 timeoutLeft,
                 options, requestBody>>

(***************************************************************************)
(* The timer of a fetch that has already rejected fires: controller.abort()*)
(* finds nothing to abort.                                                 *)
(***************************************************************************)
StaleTimeoutFires ==
  /\ timeoutTimer = "stale"
  /\ timeoutLeft = 0
  /\ timeoutTimer' = "none"
  /\ UNCHANGED <<crypto, calls, staleTimers, maxRetries, lastRateLimit, pc, endpoint, attempt, lastError, resp,
                 delay, sleepTimer, raised, result, netCalls, waits, inFlight,
                 failed, outcome, timeoutLeft,
                 options, requestBody>>

(***************************************************************************)
(* The body of a 2xx response has been read: sendRequest returns the       *)
(* parsed JSON, or the rejection of response.json() goes through the       *)
(* catch block of sendRequest.                                             *)
(***************************************************************************)
BodyOfOk ==
  /\ pc = "body"
  /\ Ok(resp)
  /\ IF JsonResolves(resp.body)
       THEN /\ pc' = "success"
            /\ result' = resp.body
            /\ outcome' = [outcome EXCEPT !.kind = "success", !.body = resp.body]
            /\ UNCHANGED <<lastError, delay, sleepTimer, raised, waits, failed>>
       ELSE LET error == SendRequestCatch(IF TextResolves(resp.body)
                                            THEN JsonSyntaxError
                                            ELSE BodyStreamError)
            IN  CatchBlock(error) /\ UNCHANGED result
  /\ inFlight' = inFlight - 1
  /\ resp' = NoResponse
  /\ UNCHANGED <<crypto, calls, staleTimers, maxRetries, lastRateLimit, endpoint, attempt, netCalls,
                 timeoutTimer, timeoutLeft,
                 options, requestBody>>

(***************************************************************************)
(* The body of a non-2xx response has been read (or could not be):         *)
(* handleErrorResponse throws the error of the status code.                *)
(***************************************************************************)
BodyOfError_ReadFailureEscapes ==
  /\ pc = "body"
  /\ ~Ok(resp)
  /\ LET error == IF TextResolves(resp.body)
                    THEN handleErrorResponse(resp)
                    ELSE SendRequestCatch(BodyStreamError)
     IN  CatchBlock(error)
  /\ inFlight' = inFlight - 1
  /\ resp' = NoResponse
  /\ UNCHANGED <<crypto, calls, staleTimers, maxRetries, lastRateLimit, endpoint, attempt, result, netCalls,
                 timeoutTimer, timeoutLeft,
                 options, requestBody>>

BodyOfError ==
  /\ pc = "body"
  /\ ~Ok(resp)
  /\ LET error == handleErrorResponse(resp)
     IN  CatchBlock(error)
  /\ inFlight' = inFlight - 1
  /\ resp' = NoResponse
  /\ UNCHANGED <<crypto, calls, staleTimers, maxRetries, lastRateLimit, endpoint, attempt, result, netCalls,
                 timeoutTimer, timeoutLeft,
                 options, requestBody>>

(***************************************************************************)
(* sleep(ms): the timer set by setTimeout fires and resolves the promise.   *)
(***************************************************************************)
TimerFires ==
  /\ pc = "wait"
  /\ sleepTimer = "pending"
  /\ sleepTimer' = "fired"
  /\ UNCHANGED <<crypto, calls, staleTimers, maxRetries, lastRateLimit, pc, endpoint, attempt, lastError, resp,
                 delay, raised, result, netCalls, waits, inFlight, failed, outcome,
                 timeoutTimer, timeoutLeft,
                 options, requestBody>>

SleepResolved_Immediately == TRUE

SleepResolved_Never == FALSE

SleepResolved == sleepTimer = "fired"

(***************************************************************************)
(* executeWithRetry resumes after await this.sleep(delay): attempt++ and   *)
(* the next turn of the loop.                                              *)
(***************************************************************************)
SleepDone_EncryptsPerAttempt ==
  /\ pc = "wait"
  /\ SleepResolved
  /\ sleepTimer' = "none"
  /\ attempt' = attempt + 1
  /\ UNCHANGED <<crypto, calls, staleTimers, maxRetries, lastRateLimit, endpoint, lastError, resp, delay,
                 result, waits, failed, options>>
  /\ IF endpoint = "/send"
       THEN \E ivBytes \in IVs : requestBody' = SendBody(options, ivBytes)
       ELSE UNCHANGED requestBody
  /\ IF LoopCondition(attempt + 1, maxRetries)
       THEN IssueFetch /\ UNCHANGED raised
       ELSE ThrowAfterLoop

SleepDone ==
  /\ pc = "wait"
  /\ SleepResolved
  /\ sleepTimer' = "none"
  /\ attempt' = attempt + 1
  /\ UNCHANGED <<crypto, calls, staleTimers, maxRetries, lastRateLimit, endpoint, lastError, resp, delay,
                 result, waits, failed,
                 options, requestBody>>
  /\ IF LoopCondition(attempt + 1, maxRetries)
       THEN IssueFetch /\ UNCHANGED raised
       ELSE ThrowAfterLoop

(***************************************************************************)
(* The caller takes the returned body or the raised error; the state of    *)
(* the call is discarded and the client is ready for its next call.        *)
(***************************************************************************)
Return ==
  /\ pc \in {"success", "failed"}
  /\ pc' = "idle"
  /\ attempt' = 0
  /\ lastError' = NoError
  /\ delay' = 0
  /\ raised' = NoError
  /\ result' = NoBody
  /\ netCalls' = 0
  /\ waits' = 0
  /\ failed' = 0
  /\ outcome' = NoOutcome
  /\ options' = NoOptions
  /\ requestBody' = NoRequestBody
  /\ UNCHANGED <<crypto, calls, staleTimers, maxRetries, lastRateLimit, endpoint, resp, sleepTimer, inFlight,
                 timeoutTimer, timeoutLeft>>

(***************************************************************************)
(* getRateLimitInfo(): the stored snapshot, NoRateLimit standing for null. *)
(***************************************************************************)
getRateLimitInfo_ResetInSeconds ==
  [lastRateLimit EXCEPT !.reset = lastRateLimit.reset \div 1000]

getRateLimitInfo == lastRateLimit

Next ==
  \/ \E ivBytes \in IVs : Send(SimpleOptions("Title", MessageText), ivBytes)
  \/ Notifai("deployment finished, v2.1.3 is live", NotGiven)
  \/ \E response \in Responses : FetchResolve(response)
  \/ \E thrown \in FetchRejections : FetchReject(thrown)
  \/ Tick
  \/ TimeoutFires
  \/ StaleTimeoutFires
  \/ BodyOfOk
  \/ BodyOfError
  \/ TimerFires
  \/ SleepDone
  \/ Return

Spec == Init /\ [][Next]_vars

(***************************************************************************)
(* The client used for send() alone, with every shape of options, against  *)
(* a server that accepts every request.                                    *)
(***************************************************************************)
SendNext ==
  \/ \E opts \in SendOptions, ivBytes \in IVs : Send(opts, ivBytes)
  \/ FetchResolve(Response(200, Null, TRUE, BodyFlat, "OK"))
  \/ BodyOfOk
  \/ Return

SendSpec == Init /\ [][SendNext]_vars

(***************************************************************************)
(* The client whose calls carry an encrypted message, tags and a type,     *)
(* against a server and a transport that fail and succeed.                 *)
(***************************************************************************)
RetriedOptions ==
  {NotificationOptions("Title", MessageText, Given("alert"),
                       Given(<<<<"P", "r", "o", "d">>, <<"a", "-", "1">>>>),
                       NotGiven, Given("https://example.com/a"),
                       Given("test_password_123")),
   SimpleOptions("Title", MessageText)}

RetriedResponses ==
  {Response(200, Null, TRUE, BodyFlat, "OK"),
   Response(400, Null, TRUE, BodyNested, "Bad Request"),
   Response(429, Str(<<"1", "0">>), TRUE, BodyNested, "Too Many Requests"),
   Response(500, Null, TRUE, BodyNested, "Internal Server Error")}

RetryNext ==
  \/ \E opts \in RetriedOptions, ivBytes \in IVs : Send(opts, ivBytes)
  \/ \E type \in {NotGiven, Given("alert")} :
       Notifai("deployment finished, v2.1.3 is live", type)
  \/ \E response \in RetriedResponses : FetchResolve(response)
  \/ FetchReject(FetchFailed)
  \/ Tick
  \/ TimeoutFires
  \/ StaleTimeoutFires
  \/ BodyOfOk
  \/ BodyOfError
  \/ TimerFires
  \/ SleepDone
  \/ Return

RetrySpec == Init /\ [][RetryNext]_vars

(***************************************************************************)
(* The same, with every list of tags.                                      *)
(***************************************************************************)
TagsNext ==
  \/ \E opts \in TaggedOptions, ivBytes \in IVs : Send(opts, ivBytes)
  \/ FetchResolve(Response(200, Null, TRUE, BodyFlat, "OK"))
  \/ BodyOfOk
  \/ Return

TagsSpec == Init /\ [][TagsNext]_vars

(***************************************************************************)
(* The same client when every timer set with setTimeout fires, every       *)
(* response body is delivered or fails, and every continuation of an       *)
(* await runs: a pending fetch ends at the latest when the timer of its    *)
(* attempt aborts it.                                                      *)
(***************************************************************************)
FairSpec ==
  /\ Spec
  /\ WF_vars(Tick)
  /\ WF_vars(TimeoutFires)
  /\ WF_vars(BodyOfOk)
  /\ WF_vars(BodyOfError)
  /\ WF_vars(TimerFires)
  /\ WF_vars(SleepDone)

(***************************************************************************)
(*               Concurrent calls on the same client                       *)
(*                                                                         *)
(* Each call of send()/notifai() runs its own executeWithRetry with its    *)
(* own local variables; the calls share maxRetries and _lastRateLimit.     *)
(* The steps of call c are those of the single call above, on calls[c].    *)
(***************************************************************************)
callVars ==
  <<pc, endpoint, attempt, lastError, resp, delay, sleepTimer, raised, result,
    netCalls, waits, inFlight, failed, outcome, timeoutTimer, timeoutLeft,
    options, requestBody>>

(***************************************************************************)
(* The attempt index call c works with: the local variable of its own      *)
(* executeWithRetry.                                                       *)
(***************************************************************************)
AttemptOf_Shared(c) == calls[1].attempt

AttemptOf(c) == calls[c].attempt

(***************************************************************************)
(* The catch block of executeWithRetry in call c.                          *)
(***************************************************************************)
CallCatch(c, error) ==
  LET call == [calls[c] EXCEPT !.lastError = error, !.failed = @ + 1,
                               !.resp = NoResponse]
  IN  IF ~InstanceOfWirePusherError(error)
        THEN [calls[c] EXCEPT !.pc = "failed", !.raised = error, !.failed = @ + 1,
                              !.resp = NoResponse]
        ELSE IF ShouldThrow(error, AttemptOf(c), maxRetries)
               THEN [call EXCEPT !.pc = "failed", !.raised = error]
               ELSE [call EXCEPT !.pc = "wait",
                                 !.delay = RetryDelay(error, AttemptOf(c)),
                                 !.waits = @ + 1]

(***************************************************************************)
(* The head of the loop of executeWithRetry in call c with attempt index   *)
(* n: the next fetch, or the throw after the loop.                         *)
(***************************************************************************)
CallLoop(call, n) ==
  IF LoopCondition(n, maxRetries)
    THEN [call EXCEPT !.pc = "fetch", !.attempt = n, !.netCalls = @ + 1]
    ELSE [call EXCEPT !.pc = "failed", !.attempt = n,
            !.raised = IF call.lastError # NoError
                         THEN call.lastError
                         ELSE WirePusherError(<<"Unknown error">>,
                                              ErrorCode.UNKNOWN, FALSE)]

CallStart(c) ==
  /\ calls[c].pc = "idle"
  /\ calls' = [calls EXCEPT ![c] = CallLoop(calls[c], 0)]
  /\ UNCHANGED <<maxRetries, lastRateLimit, staleTimers, callVars, crypto>>

CallFetchResolve(c, response) ==
  /\ calls[c].pc = "fetch"
  /\ lastRateLimit' = StoreRateLimit(lastRateLimit,
                                     parseRateLimitHeaders(response.rateLimit))
  /\ calls' = [calls EXCEPT ![c].pc = "body", ![c].resp = response]
  /\ UNCHANGED <<maxRetries, staleTimers, callVars, crypto>>

(***************************************************************************)
(* fetch of call c rejects.  With the AbortError of its own timer the      *)
(* timer has fired; with any other value the timer of the attempt is left  *)
(* running, since clearTimeout is reached only when fetch resolves.        *)
(***************************************************************************)
CallFetchReject(c, thrown) ==
  /\ calls[c].pc = "fetch"
  /\ thrown # AbortError => staleTimers < MaxStaleTimers
  /\ calls' = [calls EXCEPT ![c] = CallCatch(c, SendRequestCatch(thrown))]
  /\ staleTimers' = IF thrown # AbortError THEN staleTimers + 1 ELSE staleTimers
  /\ UNCHANGED <<maxRetries, lastRateLimit, callVars, crypto>>

(***************************************************************************)
(* A timer left running by an attempt whose fetch rejected fires:          *)
(* controller.abort() acts on the AbortController of that attempt, which   *)
(* no fetch uses any more.                                                 *)
(***************************************************************************)
EarlierTimeoutFires_SharedController ==
  /\ staleTimers > 0
  /\ staleTimers' = staleTimers - 1
  /\ IF \E c \in Calls : calls[c].pc = "fetch"
       THEN \E c \in Calls :
              /\ calls[c].pc = "fetch"
              /\ calls' = [calls EXCEPT ![c] = CallCatch(c, SendRequestCatch(AbortError))]
       ELSE UNCHANGED calls
  /\ UNCHANGED <<maxRetries, lastRateLimit, callVars, crypto>>

EarlierTimeoutFires ==
  /\ staleTimers > 0
  /\ staleTimers' = staleTimers - 1
  /\ UNCHANGED <<maxRetries, lastRateLimit, calls, callVars, crypto>>

CallBody(c) ==
  /\ calls[c].pc = "body"
  /\ LET response == calls[c].resp
     IN  calls' = [calls EXCEPT ![c] =
           IF Ok(response)
             THEN IF JsonResolves(response.body)
                    THEN [calls[c] EXCEPT !.pc = "success",
                                          !.result = response.body,
                                          !.resp = NoResponse]
                    ELSE CallCatch(c, SendRequestCatch(
                           IF TextResolves(response.body) THEN JsonSyntaxError
                                                          ELSE BodyStreamError))
             ELSE CallCatch(c, handleErrorResponse(response))]
  /\ UNCHANGED <<maxRetries, lastRateLimit, staleTimers, callVars, crypto>>

CallSleepDone(c) ==
  /\ calls[c].pc = "wait"
  /\ calls' = [calls EXCEPT ![c] = CallLoop(calls[c], AttemptOf(c) + 1)]
  /\ UNCHANGED <<maxRetries, lastRateLimit, staleTimers, callVars, crypto>>

CallReturn(c) ==
  /\ calls[c].pc \in {"success", "failed"}
  /\ calls' = [calls EXCEPT ![c] = IdleCall]
  /\ UNCHANGED <<maxRetries, lastRateLimit, staleTimers, callVars, crypto>>

(***************************************************************************)
(* What the transport hands to concurrent calls (the abort by the timer of  *)
(* an attempt reaches its call as the AbortError fetch rejects with), and   *)
(* the retry limits of the clients they run on.                            *)
(***************************************************************************)
ConcurrentResponses ==
  {WithRateLimit(Response(200, Null, TRUE, BodyFlat, "OK"), h) :
     h \in {RateLimitHeaders(Str(<<"1", "0", "0">>), Str(<<"9", "5">>), Str(<<"1", "7">>)),
            RateLimitHeaders(Str(<<"5", "0">>), Str(<<"0">>), Str(<<"9", "9">>)),
            RateLimitHeaders(Str(<<"7", "0">>), Str(<<"6", "9">>), Str(<<"x">>))}}
  \cup {Response(429, Str(<<"1", "0">>), TRUE, BodyNested, "Too Many Requests"),
        Response(500, Null, FALSE, BodyText, "Internal Server Error"),
        Response(401, Null, TRUE, BodyNested, "Unauthorized")}

ConcurrentRejections == {AbortError, FetchFailed}

ConcurrentRetryLimits == {1, 3}

ConcurrentInit == Init /\ maxRetries \in ConcurrentRetryLimits

ConcurrentNext ==
  \/ \E c \in Calls :
       \/ CallStart(c)
       \/ \E response \in ConcurrentResponses : CallFetchResolve(c, response)
       \/ \E thrown \in ConcurrentRejections : CallFetchReject(c, thrown)
       \/ CallBody(c)
       \/ CallSleepDone(c)
       \/ CallReturn(c)
  \/ EarlierTimeoutFires

ConcurrentSpec == ConcurrentInit /\ [][ConcurrentNext]_vars

(***************************************************************************)
(*          The functions of the encryption module, on their own           *)
(*                                                                         *)
(* A caller invokes one function of src/src/crypto.ts, and then the same   *)
(* function again; crypto keeps the latest invocation and the one before.  *)
(***************************************************************************)
Plaintexts ==
  {<<>>, <<72, 233, 8364, 127757>>, [i \in 1..15 |-> 65], [i \in 1..16 |-> 65]}

Passwords == {"test_password_123", "secret"}

Buffers == {[i \in 1..n |-> (37 * i + 214) % 256] : n \in 0..MaxBytes}

ByteSamples ==
  {<<>>, <<1>>, <<251, 255>>, <<255, 254>>, <<0, 16, 131>>, <<255, 255, 255, 255>>,
   <<72, 101, 108, 108, 111, 44, 32, 87, 111, 114, 108, 100, 33>>}

ApplyPKCS7Padding(data) ==
  /\ crypto.last.fn \in {"none", "applyPKCS7Padding"}
  /\ crypto' = [last |-> Invocation("applyPKCS7Padding", <<data>>,
                                    applyPKCS7Padding(data)),
                before |-> crypto.last]
  /\ UNCHANGED <<maxRetries, lastRateLimit, calls, staleTimers, callVars>>

CustomBase64Encode(data) ==
  /\ crypto.last.fn \in {"none", "customBase64Encode"}
  /\ crypto' = [last |-> Invocation("customBase64Encode", <<data>>,
                                    customBase64Encode(data)),
                before |-> crypto.last]
  /\ UNCHANGED <<maxRetries, lastRateLimit, calls, staleTimers, callVars>>

DeriveEncryptionKey(password) ==
  /\ crypto.last.fn \in {"none", "deriveEncryptionKey"}
  /\ crypto' = [last |-> Invocation("deriveEncryptionKey", <<password>>,
                                    deriveEncryptionKey(password)),
                before |-> crypto.last]
  /\ UNCHANGED <<maxRetries, lastRateLimit, calls, staleTimers, callVars>>

EncryptMessage(plaintext, password, iv) ==
  /\ crypto.last.fn \in {"none", "encryptMessage"}
  /\ crypto' = [last |-> Invocation("encryptMessage", <<plaintext, password, iv>>,
                                    encryptMessage(plaintext, password, iv)),
                before |-> crypto.last]
  /\ UNCHANGED <<maxRetries, lastRateLimit, calls, staleTimers, callVars>>

CryptoInit == Init /\ maxRetries = 3

CryptoNext ==
  \/ \E data \in Buffers : ApplyPKCS7Padding(data)
  \/ \E data \in ByteSamples : CustomBase64Encode(data)
  \/ \E password \in Passwords : DeriveEncryptionKey(password)
  \/ \E plaintext \in Plaintexts, password \in Passwords, iv \in IVs :
       EncryptMessage(plaintext, password, iv)

CryptoSpec == CryptoInit /\ [][CryptoNext]_vars

(***************************************************************************)
(*                          Properties of the call                         *)
(***************************************************************************)
IsTwoHundred(response) == response.status \in 200..299

(***************************************************************************)
(* The inverse of encryptMessage, as the receiving app does it: undo the   *)
(* substitution of characters, decode the Base64, decrypt AES-128-CBC with *)
(* the key derived from the password and the IV, strip the padding, and    *)
(* read the bytes as UTF-8.                                                *)
(***************************************************************************)
SextetOf(char) ==
  LET standard == CASE char = 45 -> 43 [] char = 46 -> 47 [] OTHER -> char
  IN  CHOOSE v \in 0..63 : Base64Alphabet[v + 1] = standard

RECURSIVE CustomBase64Decode(_)
CustomBase64Decode(text) ==
  IF Len(text) < 4
    THEN <<>>
    ELSE LET a == SextetOf(text[1])
             b == SextetOf(text[2])
         IN  IF text[3] = 95
               THEN <<4 * a + (b \div 16)>>
               ELSE LET c == SextetOf(text[3])
                    IN  IF text[4] = 95
                          THEN <<4 * a + (b \div 16), 16 * (b % 16) + (c \div 4)>>
                          ELSE <<4 * a + (b \div 16), 16 * (b % 16) + (c \div 4),
                                 64 * (c % 4) + SextetOf(text[4])>>
                                 \o CustomBase64Decode(SubSeq(text, 5, Len(text)))

InvSBox == [y \in 0..255 |-> CHOOSE x \in 0..255 : SBox[x + 1] = y]
Mul9 == [a \in 0..255 |-> GMul(a, 9)]
Mul11 == [a \in 0..255 |-> GMul(a, 11)]
Mul13 == [a \in 0..255 |-> GMul(a, 13)]
Mul14 == [a \in 0..255 |-> GMul(a, 14)]

InvSubBytes(state) ==
  <<InvSBox[state[1]], InvSBox[state[2]], InvSBox[state[3]], InvSBox[state[4]],
    InvSBox[state[5]], InvSBox[state[6]], InvSBox[state[7]], InvSBox[state[8]],
    InvSBox[state[9]], InvSBox[state[10]], InvSBox[state[11]], InvSBox[state[12]],
    InvSBox[state[13]], InvSBox[state[14]], InvSBox[state[15]], InvSBox[state[16]]>>

InvShiftRows(state) ==
  <<state[1], state[14], state[11], state[8],
    state[5], state[2], state[15], state[12],
    state[9], state[6], state[3], state[16],
    state[13], state[10], state[7], state[4]>>

InvMixColumn(a) ==
  <<Xor(Xor(Mul14[a[1]], Mul11[a[2]]), Xor(Mul13[a[3]], Mul9[a[4]])),
    Xor(Xor(Mul9[a[1]], Mul14[a[2]]), Xor(Mul11[a[3]], Mul13[a[4]])),
    Xor(Xor(Mul13[a[1]], Mul9[a[2]]), Xor(Mul14[a[3]], Mul11[a[4]])),
    Xor(Xor(Mul11[a[1]], Mul13[a[2]]), Xor(Mul9[a[3]], Mul14[a[4]]))>>

InvMixColumns(state) ==
  InvMixColumn(SubSeq(state, 1, 4)) \o InvMixColumn(SubSeq(state, 5, 8))
    \o InvMixColumn(SubSeq(state, 9, 12)) \o InvMixColumn(SubSeq(state, 13, 16))

RECURSIVE InvCipherRounds(_, _)
InvCipherRounds(states, w) ==
  IF Len(states) = 11
    THEN states
    ELSE LET round == 10 - Len(states)
             state == XorBlock(InvSubBytes(InvShiftRows(states[Len(states)])),
                               RoundKey(w, round))
         IN  InvCipherRounds(Append(states, IF round = 0 THEN state
                                                         ELSE InvMixColumns(state)), w)

InvCipher(block, w) == InvCipherRounds(<<XorBlock(block, RoundKey(w, 10))>>, w)[11]

RECURSIVE CbcDecryptBlocks(_, _, _, _)
CbcDecryptBlocks(decrypted, encrypted, w, iv) ==
  IF Len(decrypted) >= Len(encrypted)
    THEN decrypted
    ELSE LET done == Len(decrypted)
             previous == IF done = 0 THEN iv ELSE SubSeq(encrypted, done - 15, done)
             block == SubSeq(encrypted, done + 1, done + 16)
         IN  CbcDecryptBlocks(decrypted \o XorBlock(InvCipher(block, w), previous),
                              encrypted, w, iv)

StripPadding(padded) == SubSeq(padded, 1, Len(padded) - padded[Len(padded)])

RECURSIVE Utf8Decode(_)
Utf8Decode(bytes) ==
  IF bytes = <<>>
    THEN <<>>
    ELSE LET b == bytes[1]
             n == IF b < 128 THEN 1 ELSE IF b < 224 THEN 2 ELSE IF b < 240 THEN 3 ELSE 4
             cp == CASE n = 1 -> b
                     [] n = 2 -> 64 * (b - 192) + (bytes[2] - 128)
                     [] n = 3 -> 4096 * (b - 224) + 64 * (bytes[2] - 128) + (bytes[3] - 128)
                     [] n = 4 -> 262144 * (b - 240) + 4096 * (bytes[2] - 128)
                                   + 64 * (bytes[3] - 128) + (bytes[4] - 128)
         IN  <<cp>> \o Utf8Decode(SubSeq(bytes, n + 1, Len(bytes)))

DecryptMessage(text, password, iv) ==
  LET encrypted == CustomBase64Decode(text)
      padded == CbcDecryptBlocks(<<>>, encrypted,
                                 KeySchedule(deriveEncryptionKey(password)), iv)
  IN  Utf8Decode(StripPadding(padded))
IsParsedJson(body) == body.fmt = "nested" \/ body.fmt = "flat"
NonRetryableCodes ==
  {"VALIDATION_ERROR", "AUTH_INVALID", "AUTH_FORBIDDEN", "NOT_FOUND", "UNKNOWN"}
HasHint(error) == error.code = "RATE_LIMIT" /\ error.retryAfterSeconds.defined
Terminal == pc \in {"success", "failed"}
IssuesRetry == netCalls' > netCalls /\ netCalls >= 1

(* C1: with maxRetries = k >= 0 a call issues at most k+1 network calls,   *)
(* and a further attempt is issued only after the previous attempt n       *)
(* failed with a retryable error and n < k.                                *)
C1_RetryBound ==
  [][maxRetries >= 0 =>
       /\ netCalls' <= maxRetries + 1
       /\ IssuesRetry =>
            /\ netCalls' = netCalls + 1
            /\ outcome.kind = "failure"
            /\ outcome.error.isRetryable
            /\ failed = netCalls
            /\ netCalls - 1 < maxRetries]_vars

C1_Witness == pc = "failed" /\ maxRetries = 3 /\ netCalls = 4 /\ failed = 4

(* C2 as stated: every 2xx response ends the call in SUCCESS with that     *)
(* response's parsed body, with no further network call and no wait.       *)
C2_Every2xxSucceeds ==
  [][(pc = "body" /\ IsTwoHundred(resp) /\ pc' # "body") =>
       /\ pc' = "success"
       /\ result' = resp.body
       /\ netCalls' = netCalls
       /\ waits' = waits]_vars

(* C2 amended: a 2xx response whose body is read and parsed as JSON ends   *)
(* the call in SUCCESS with that parsed body, and after it the call makes  *)
(* no network call and no wait; a 2xx response whose body cannot be read   *)
(* or parsed makes the attempt fail as a retryable NETWORK_ERROR.          *)
C2_Parsed2xxSucceeds ==
  [][/\ (pc = "body" /\ IsTwoHundred(resp) /\ pc' # "body") =>
          IF IsParsedJson(resp.body)
            THEN /\ pc' = "success"
                 /\ result' = resp.body
                 /\ netCalls' = netCalls
                 /\ waits' = waits
                 /\ inFlight' = 0
            ELSE /\ outcome'.kind = "failure"
                 /\ outcome'.error.code = "NETWORK_ERROR"
                 /\ outcome'.error.isRetryable
                 /\ raised' \in {NoError, outcome'.error}
     /\ pc = "success" => (pc' = "idle" /\ netCalls' = 0 /\ waits' = 0)]_vars

C2_Witness ==
  /\ pc = "success"
  /\ outcome.kind = "success"
  /\ result = BodyFlat
  /\ netCalls = 1

(* C3: an attempt that fails with a non-retryable kind sends the call to   *)
(* FAILED at once, with no wait and no further network call, whatever the  *)
(* attempt index and the retries that remain.                              *)
C3_NonRetryableFailsAtOnce ==
  [][/\ (outcome.kind = "pending" /\ outcome'.kind = "failure"
           /\ outcome'.error.code \in NonRetryableCodes) =>
          /\ pc' = "failed"
          /\ raised' = outcome'.error
          /\ netCalls' = netCalls
          /\ waits' = waits
          /\ sleepTimer' = "none"
     /\ pc = "failed" =>
          \/ pc' = "idle" /\ netCalls' = 0 /\ waits' = 0
          \/ pc' = "failed" /\ netCalls' = netCalls /\ waits' = waits
                /\ raised' = raised]_vars

C3_Witness ==
  /\ pc = "failed"
  /\ outcome.error.code = "AUTH_INVALID"
  /\ maxRetries = 3
  /\ netCalls = 2
  /\ failed = 2

(* C4: the error raised by a call that ends in FAILED is the error record  *)
(* produced by the last attempt made, never a substitute.                  *)
C4_RaisedIsLastAttemptError ==
  pc = "failed" => (outcome.kind = "failure" /\ raised = outcome.error)

(* C5: with maxRetries = k, j <= k retryable failures followed by a        *)
(* successful attempt give exactly j+1 network calls and the parsed body   *)
(* of the last one: the call does not give up on a retryable failure       *)
(* before attempt k+1, and a success returns at once.                      *)
C5_RetryThenSuccess ==
  /\ pc = "success" =>
       /\ outcome.kind = "success"
       /\ result = outcome.body
       /\ failed <= maxRetries
       /\ netCalls = failed + 1
       /\ waits = failed
  /\ (pc = "failed" /\ maxRetries >= 0 /\ outcome.error.isRetryable) =>
       failed = maxRetries + 1

C5_Witness ==
  /\ pc = "success"
  /\ maxRetries = 1
  /\ failed = 1
  /\ lastError.code = "SERVER_ERROR"
  /\ netCalls = 2
  /\ result = BodyFlat

(* C6: a wait follows only a retryable failure of an attempt               *)
(* n < maxRetries, and in every call that has ended the number of waits    *)
(* is the number of network calls minus one.                               *)
C6_WaitsAreCallsMinusOne ==
  /\ pc = "wait" =>
       /\ outcome.kind = "failure"
       /\ outcome.error.isRetryable
       /\ failed - 1 < maxRetries
  /\ Terminal => waits = netCalls - 1

(* C7: at most one network call of a call is in flight, and a further      *)
(* attempt starts only when the previous one has completed and the wait    *)
(* that follows it has elapsed.                                            *)
C7_AttemptsSequential ==
  [][/\ inFlight' <= 1
     /\ IssuesRetry =>
          /\ inFlight = 0
          /\ outcome.kind = "failure"
          /\ pc = "wait"
          /\ sleepTimer = "fired"]_vars

C7_Witness == pc = "fetch" /\ inFlight = 1 /\ netCalls = 3 /\ waits = 2

(* C8: without a Retry-After hint the wait after zero-indexed attempt n is *)
(* min(30000, base * 2^n), base 1000 for NETWORK, TIMEOUT and SERVER       *)
(* errors and 5000 for RATE_LIMIT errors.                                  *)
C8_ExponentialBackoff ==
  (pc = "wait" /\ ~HasHint(outcome.error)) =>
    LET n == failed - 1
        base == IF outcome.error.code = "RATE_LIMIT" THEN 5000 ELSE 1000
        d == base * 2^n
    IN  /\ outcome.error.code \in {"NETWORK_ERROR", "TIMEOUT", "SERVER_ERROR", "RATE_LIMIT"}
        /\ delay = IF d > 30000 THEN 30000 ELSE d

C8_Witness ==
  /\ pc = "wait"
  /\ outcome.error.code = "NETWORK_ERROR"
  /\ failed = 6
  /\ delay = 30000

(* C9: after a 429 whose Retry-After header parses to the integer s the    *)
(* wait is s * 1000 ms at every attempt index, not the exponential value.  *)
C9_RetryAfterOverrides ==
  [][(pc = "body" /\ resp.status = 429 /\ pc' = "wait") =>
       CASE resp.retryAfter = Str(<<"0">>) -> delay' = 0
         [] resp.retryAfter = Str(<<"1", "0">>) -> delay' = 10000
         [] resp.retryAfter = Str(<<"6", "0">>) -> delay' = 60000
         [] OTHER -> ~outcome'.error.retryAfterSeconds.defined]_vars

C9_Witness ==
  /\ pc = "wait"
  /\ outcome.error.code = "RATE_LIMIT"
  /\ outcome.error.retryAfterSeconds = Num(10)
  /\ failed = 3
  /\ delay = 10000

(* C10 as stated: every wait between two attempts is at most 30000 ms.     *)
C10_EveryWaitCapped == pc = "wait" => delay <= 30000

(* C10 amended: every wait computed by the exponential backoff (the failed *)
(* attempt carries no Retry-After hint) is at most 30000 ms, for every     *)
(* error kind and attempt index; a wait taken from a Retry-After hint of   *)
(* s seconds is s * 1000 ms and is not capped.                             *)
C10_BackoffCapped ==
  pc = "wait" =>
    IF HasHint(outcome.error)
      THEN delay = outcome.error.retryAfterSeconds.value * 1000
      ELSE delay <= 30000

C10_Witness ==
  /\ pc = "wait"
  /\ outcome.error.code = "RATE_LIMIT"
  /\ ~outcome.error.retryAfterSeconds.defined
  /\ failed = 4
  /\ delay = 30000

(* The step on which the pending fetch of the attempt rejects: the timer   *)
(* of the attempt fired (FetchAborted) or fetch threw by itself            *)
(* (FetchThrew).                                                           *)
FetchAborted ==
  /\ pc = "fetch" /\ pc' \notin {"fetch", "body"}
  /\ timeoutTimer = "armed" /\ timeoutTimer' = "none"

FetchThrew ==
  /\ pc = "fetch" /\ pc' \notin {"fetch", "body"}
  /\ timeoutTimer = "armed" /\ timeoutTimer' = "stale"

(* C12: an attempt that fails without a response is classified by what was *)
(* thrown: the abort of the attempt's timeout is TIMEOUT, retryable; any    *)
(* other thrown failure object is NETWORK_ERROR, retryable; a thrown value  *)
(* that is no failure object is UNKNOWN, not retryable, never retried, and  *)
(* its string form is in the message.                                      *)
C12_TransportClassification ==
  [][LET e == outcome'.error
     IN  /\ FetchAborted =>
              /\ outcome'.kind = "failure"
              /\ e.code = "TIMEOUT" /\ e.isRetryable
         /\ FetchThrew =>
              /\ outcome'.kind = "failure"
              /\ \/ /\ e.code = "NETWORK_ERROR" /\ e.isRetryable
                    /\ e.message = <<"Network error: ", "fetch failed">>
                 \/ /\ e.code = "UNKNOWN" /\ ~e.isRetryable
                    /\ e.message = <<"Unexpected error: ", "string error">>
                    /\ pc' = "failed" /\ raised' = e
                    /\ netCalls' = netCalls /\ waits' = waits
         /\ (FetchAborted \/ FetchThrew) /\ e.isRetryable /\ attempt < maxRetries
              => pc' = "wait"]_vars

C12_Witness ==
  /\ pc = "failed"
  /\ maxRetries = 3
  /\ netCalls = 2
  /\ raised.code = "UNKNOWN"
  /\ raised.message = <<"Unexpected error: ", "string error">>
  /\ timeoutTimer = "stale"

(* C18: every attempt arms its own timer with the full configured timeout, *)
(* whatever earlier attempts and waits used up; the timer fires only once   *)
(* that time has run out, and when it fires while the fetch of its attempt  *)
(* is pending the fetch is aborted and the attempt fails with TIMEOUT,      *)
(* retryable: retried while the attempt index is below maxRetries, raised   *)
(* otherwise.                                                               *)
C18_PerAttemptTimeout ==
  [][/\ netCalls' = netCalls + 1 =>
          /\ timeoutTimer' = "armed"
          /\ timeoutLeft' = Timeout
     /\ FetchAborted =>
          /\ timeoutLeft = 0
          /\ inFlight' = inFlight - 1
          /\ outcome'.kind = "failure"
          /\ outcome'.error.code = "TIMEOUT"
          /\ outcome'.error.isRetryable
          /\ IF attempt < maxRetries
               THEN pc' = "wait" /\ waits' = waits + 1
               ELSE pc' = "failed" /\ raised' = outcome'.error
     /\ (outcome.kind = "pending" /\ outcome'.kind = "failure"
           /\ outcome'.error.code = "TIMEOUT") => FetchAborted]_vars

C18_Witness ==
  /\ pc = "fetch"
  /\ netCalls = 3
  /\ lastError.code = "TIMEOUT"
  /\ timeoutTimer = "armed"
  /\ timeoutLeft = Timeout
  /\ waits = 2

(* The step on which the body of the response of the attempt has been read *)
(* and the attempt ends.                                                   *)
ResponseHandled == pc = "body" /\ pc' # "body"

(* C11: a non-2xx response is classified by its status alone: 400          *)
(* VALIDATION_ERROR, 401 AUTH_INVALID, 403 AUTH_FORBIDDEN, 404 NOT_FOUND,  *)
(* none of them retryable; 429 RATE_LIMIT and 500, 502, 503, 504           *)
(* SERVER_ERROR, retryable; every other status UNKNOWN, not retryable.     *)
C11_StatusClassification ==
  [][(ResponseHandled /\ resp.status \notin 200..299) =>
       LET e == outcome'.error
           st == resp.status
       IN  /\ outcome'.kind = "failure"
           /\ e.code = CASE st = 400 -> "VALIDATION_ERROR"
                         [] st = 401 -> "AUTH_INVALID"
                         [] st = 403 -> "AUTH_FORBIDDEN"
                         [] st = 404 -> "NOT_FOUND"
                         [] st = 429 -> "RATE_LIMIT"
                         [] st \in {500, 502, 503, 504} -> "SERVER_ERROR"
                         [] OTHER -> "UNKNOWN"
           /\ e.isRetryable = (st \in {429, 500, 502, 503, 504})]_vars

C11_Witness ==
  /\ pc = "failed"
  /\ maxRetries = 3
  /\ netCalls = 2
  /\ lastError.code = "UNKNOWN"
  /\ lastError.message = <<"API error (", "501", "): ", "Server error">>

(* The complete sets of rate-limit headers of the model and the snapshots  *)
(* they stand for.                                                         *)
HeadersA == [limit |-> Str(<<"1", "0", "0">>), remaining |-> Str(<<"9", "5">>),
             reset |-> Str(<<"1", "7">>)]
HeadersB == [limit |-> Str(<<"5", "0">>), remaining |-> Str(<<"0">>),
             reset |-> Str(<<"9", "9">>)]
SnapshotA == [set |-> TRUE, limit |-> 100, remaining |-> 95, reset |-> 17000]
SnapshotB == [set |-> TRUE, limit |-> 50, remaining |-> 0, reset |-> 99000]
ResponseArrives == pc = "fetch" /\ pc' = "body"

(* C13: the update of the rate-limit snapshot is all or nothing: a          *)
(* response with the three headers present and numeric stores the three     *)
(* values together; one with a header absent or not a number leaves the     *)
(* snapshot exactly as it was; the snapshot is never a mix.                 *)
C13_SnapshotAllOrNothing ==
  [][/\ ResponseArrives =>
          CASE resp'.rateLimit = HeadersA -> lastRateLimit' = SnapshotA
            [] resp'.rateLimit = HeadersB -> lastRateLimit' = SnapshotB
            [] OTHER -> lastRateLimit' = lastRateLimit
     /\ ~ResponseArrives => lastRateLimit' = lastRateLimit
     /\ lastRateLimit' \in {NoRateLimit, SnapshotA, SnapshotB}]_vars

C13_Witness ==
  /\ pc = "body"
  /\ lastRateLimit = SnapshotA
  /\ resp.rateLimit = [limit |-> Str(<<"7", "0">>), remaining |-> Str(<<"6", "9">>),
                       reset |-> Str(<<"x">>)]

(* C14: the snapshot is replaced only by a response with a 2xx status; a   *)
(* non-2xx response leaves it unchanged even with three valid headers.     *)
C14_OnlySuccessUpdates ==
  [][lastRateLimit' # lastRateLimit =>
       (ResponseArrives /\ resp'.status \in 200..299)]_vars

(* C15: getRateLimitInfo() is null until the first response with three     *)
(* valid headers; when a call returns from a response with the headers     *)
(* (L, R, T) it gives limit L, remaining R and the instant T * 1000 ms,    *)
(* and goes on giving them until another response is processed.            *)
C15_GetRateLimitInfo ==
  /\ getRateLimitInfo = NoRateLimit
  /\ [][/\ (getRateLimitInfo = NoRateLimit /\ getRateLimitInfo' # NoRateLimit) =>
             (ResponseArrives /\ resp'.rateLimit \in {HeadersA, HeadersB})
        /\ (ResponseHandled /\ pc' = "success" /\ resp.rateLimit = HeadersA) =>
             getRateLimitInfo' = [set |-> TRUE, limit |-> 100, remaining |-> 95,
                                  reset |-> 17 * 1000]
        /\ (ResponseHandled /\ pc' = "success" /\ resp.rateLimit = HeadersB) =>
             getRateLimitInfo' = [set |-> TRUE, limit |-> 50, remaining |-> 0,
                                  reset |-> 99 * 1000]
        /\ pc \in {"success", "idle"} /\ pc' \in {"success", "idle"} =>
             getRateLimitInfo' = getRateLimitInfo]_vars

C15_Witness ==
  /\ pc = "success"
  /\ netCalls = 2
  /\ result = BodyFlat
  /\ getRateLimitInfo = [set |-> TRUE, limit |-> 50, remaining |-> 0, reset |-> 99000]

(* C19: when every timer fires and every network call responds or is       *)
(* aborted, a call that has started reaches a terminal state, after no      *)
(* more than maxRetries + 1 attempts, and the terminal state is exactly     *)
(* one of a returned body and a raised error.                               *)
C19_Terminates ==
  /\ (pc \in {"fetch", "body", "wait"}) ~> (pc \in {"success", "failed"})
  /\ [](pc = "success" => (result # NoBody /\ raised = NoError))
  /\ [](pc = "failed" => (result = NoBody /\ raised # NoError))
  /\ [](netCalls <= maxRetries + 1 \/ netCalls = 0)

C19_Witness ==
  /\ pc = "failed"
  /\ maxRetries = MaxRetries
  /\ netCalls = MaxRetries + 1
  /\ waits = MaxRetries
  /\ raised.code = "TIMEOUT"

(* C20: in the body of a /send request iv is present if and only if an     *)
(* encryption password was given; with one, message is the ciphertext of   *)
(* the original message under that password and iv is the 32-character hex *)
(* of the IV used for it, while title, type, tags, imageURL and actionURL  *)
(* are sent as they are; without one, message is the plaintext.            *)
C20_IvIffPassword ==
  (pc # "idle" /\ endpoint = "/send") =>
    /\ requestBody.iv.given <=> options.encryptionPassword.given
    /\ options.encryptionPassword.given =>
         /\ Len(requestBody.iv.value) = 32
         /\ \A i \in 1..32 : \E v \in 1..16 : requestBody.iv.value[i] = HexDigits[v]
         /\ DecryptMessage(requestBody.message, options.encryptionPassword.value,
                           FromHex(requestBody.iv.value)) = options.message
    /\ ~options.encryptionPassword.given => requestBody.message = options.message
    /\ requestBody.title = options.title
    /\ requestBody.type = options.type
    /\ requestBody.imageURL = options.imageURL
    /\ requestBody.actionURL = options.actionURL
    /\ requestBody.tags.given =>
         \A i \in 1..Len(requestBody.tags.value) :
           \A j \in 1..Len(requestBody.tags.value[i]) :
             requestBody.tags.value[i][j] \in AllowedTagChars

(* What call c has done is consistent with its own failures alone.         *)
OwnHistory(c) ==
  LET k == calls[c]
  IN  /\ k.failed <= maxRetries + 1
      /\ k.pc \in {"fetch", "body", "success"} =>
           (k.netCalls = k.failed + 1 /\ k.waits = k.failed /\ k.attempt = k.failed)
      /\ k.pc = "wait" =>
           /\ k.netCalls = k.failed /\ k.waits = k.failed
           /\ k.attempt = k.failed - 1
           /\ k.lastError.isRetryable
           /\ k.delay = IF k.lastError.retryAfterSeconds.defined
                          THEN k.lastError.retryAfterSeconds.value * 1000
                          ELSE Min(30000, 1000 * Pow2(k.failed - 1))
      /\ k.pc = "failed" =>
           /\ k.netCalls = k.failed /\ k.waits = k.failed - 1
           /\ k.raised = k.lastError
           /\ k.raised.isRetryable => k.failed = maxRetries + 1
      /\ k.pc = "idle" => k = IdleCall

(* C16: calls that run concurrently on one client each have their own      *)
(* attempt index and last error: a step of one call changes nothing of the  *)
(* other, and the attempts, waits and outcome of a call follow from the     *)
(* failures of its own attempts alone, so a failure of one call never uses  *)
(* up a retry of another.                                                   *)
C16_CallsIndependent ==
  /\ [](\A c \in Calls : OwnHistory(c))
  /\ [][\A c \in Calls : calls'[c] # calls[c] =>
          \A d \in Calls \ {c} : calls'[d] = calls[d]]_vars

C16_Witness ==
  /\ maxRetries = 3
  /\ calls[1].pc = "failed" /\ calls[1].failed = 4 /\ calls[1].raised.code = "TIMEOUT"
  /\ calls[2].pc = "wait" /\ calls[2].failed = 1 /\ calls[2].delay = 10000

(* The step on which a response arrives in call c.                         *)
ResponseArrivesIn(c) == calls[c].pc = "fetch" /\ calls'[c].pc = "body"

(* C17: under every interleaving of concurrent calls the snapshot is null  *)
(* or the complete triple of one response that carried three valid         *)
(* headers: never fields of two responses, and the last such response to   *)
(* be processed is the one stored.                                         *)
C17_LastWriteWins ==
  /\ [](lastRateLimit \in {NoRateLimit, SnapshotA, SnapshotB})
  /\ [][\A c \in Calls :
          /\ ResponseArrivesIn(c) =>
               CASE calls'[c].resp.rateLimit = HeadersA -> lastRateLimit' = SnapshotA
                 [] calls'[c].resp.rateLimit = HeadersB -> lastRateLimit' = SnapshotB
                 [] OTHER -> lastRateLimit' = lastRateLimit
          /\ (\A d \in Calls : ~ResponseArrivesIn(d)) =>
               lastRateLimit' = lastRateLimit]_vars

C17_Witness ==
  /\ lastRateLimit = SnapshotB
  /\ calls[1].pc = "body" /\ calls[1].resp.rateLimit = HeadersA
  /\ calls[2].pc = "body" /\ calls[2].resp.rateLimit = HeadersB

(* C21: when send() is given an encryption password, title, message,       *)
(* imageURL and actionURL of the request are all encrypted, and only type   *)
(* and tags are sent as they are.                                          *)
C21_FourFieldsEncrypted ==
  (pc # "idle" /\ endpoint = "/send" /\ options.encryptionPassword.given
     /\ options.encryptionPassword.value # "") =>
    /\ requestBody.message # options.message
    /\ requestBody.title # options.title
    /\ options.imageURL.given => requestBody.imageURL # options.imageURL
    /\ options.actionURL.given => requestBody.actionURL # options.actionURL
    /\ requestBody.type = options.type

(* C27: the retry-after hint is set only on the RATE_LIMIT error of a 429  *)
(* response, and exactly when the response has a Retry-After header that   *)
(* parses as an integer, which the hint then equals; with the header       *)
(* missing or not a number the hint is absent, and no error of another     *)
(* kind carries a hint.                                                    *)
C27_RetryAfterHint ==
  [][(outcome.kind = "pending" /\ outcome'.kind = "failure") =>
       LET hint == outcome'.error.retryAfterSeconds
           header == resp.retryAfter
       IN  IF ResponseHandled /\ resp.status = 429 /\ header.present
                /\ header.text \in {<<"0">>, <<"1", "0">>, <<"6", "0">>}
             THEN /\ outcome'.error.code = "RATE_LIMIT"
                  /\ hint.defined
                  /\ hint.value = CASE header.text = <<"0">> -> 0
                                    [] header.text = <<"1", "0">> -> 10
                                    [] header.text = <<"6", "0">> -> 60
             ELSE ~hint.defined]_vars

C27_Witness ==
  /\ pc = "failed"
  /\ maxRetries = 0
  /\ raised.code = "RATE_LIMIT"
  /\ raised.retryAfterSeconds = [defined |-> TRUE, value |-> 60]

(* What is left of a tag: its characters in lowercase, without those that  *)
(* are not a-z, 0-9, - or _.                                               *)
StrippedTag(tag) ==
  SelectSeq([i \in 1..Len(tag) |-> ToLowerCase(tag[i])], IsAllowedTagChar)

(* The first place in the list given where a tag with this form stands.    *)
FirstOccurrence(given, form) ==
  CHOOSE k \in 1..Len(given) :
    /\ StrippedTag(given[k]) = form
    /\ \A l \in 1..(k - 1) : StrippedTag(given[l]) # form

(* C29: the tags sent are non-empty, made of a-z, 0-9, - and _ only, and    *)
(* without duplicates; they are the stripped lowercase forms of the tags    *)
(* given, a tag being dropped only when nothing is left of it, in the       *)
(* order in which each form first occurs; and send() leaves the tags field  *)
(* out of the body when no tag is left.                                     *)
C29_NormalizedTags ==
  (pc # "idle" /\ endpoint = "/send") =>
    LET given == options.tags.value
        sent == requestBody.tags.value
    IN  /\ ~options.tags.given => ~requestBody.tags.given
        /\ requestBody.tags.given <=> Len(sent) > 0
        /\ \A i \in 1..Len(sent) :
             /\ Len(sent[i]) > 0
             /\ \A j \in 1..Len(sent[i]) : sent[i][j] \in AllowedTagChars
             /\ \A j \in 1..Len(sent) : sent[i] = sent[j] => i = j
             /\ \E k \in 1..Len(given) : StrippedTag(given[k]) = sent[i]
        /\ \A k \in 1..Len(given) :
             StrippedTag(given[k]) # <<>> =>
               \E i \in 1..Len(sent) : sent[i] = StrippedTag(given[k])
        /\ \A i, j \in 1..Len(sent) :
             i < j => FirstOccurrence(given, sent[i]) < FirstOccurrence(given, sent[j])

C29_Witness ==
  /\ pc = "success"
  /\ options.tags.value = <<<<"b", "-", "_", "1">>, <<"a", "@", "b">>, <<"A", "b">>>>
  /\ requestBody.tags.value = <<<<"b", "-", "_", "1">>, <<"a", "b">>>>

(* The sequence tail stands at the end of the sequence msg.                 *)
EndsWith(msg, tail) ==
  /\ Len(tail) <= Len(msg)
  /\ SubSeq(msg, Len(msg) - Len(tail) + 1, Len(msg)) = tail

(* The detail the nested error description of a body stands for: its        *)
(* message, then the parameter suffix, then the code suffix.                *)
NestedDetail(body) ==
  <<IF body.message # "" THEN body.message ELSE "Unknown error">>
    \o (IF body.param # "" THEN <<" (parameter: ", body.param, ")">> ELSE <<>>)
    \o (IF body.code # "" THEN <<" [", body.code, "]">> ELSE <<>>)

(* The step on which a non-2xx JSON response with a nested error            *)
(* description has been read.                                               *)
NestedErrorHandled ==
  /\ ResponseHandled
  /\ resp.status \notin 200..299
  /\ resp.contentTypeJson
  /\ resp.body.fmt = "nested"

(* C30: for every non-2xx status other than 401 and 403, when the body of   *)
(* a JSON response carries a nested error description with message M,       *)
(* param P and code C, the message of the error ends with M, then           *)
(* ' (parameter: P)', then ' [C]', a suffix being left out exactly when its *)
(* field is absent or empty.                                                *)
C30_NestedErrorMessage ==
  [][(NestedErrorHandled /\ resp.status \notin {401, 403}) =>
       /\ outcome'.kind = "failure"
       /\ EndsWith(outcome'.error.message, NestedDetail(resp.body))
       /\ Len(outcome'.error.message) > Len(NestedDetail(resp.body))]_vars

C30_Witness ==
  /\ pc = "failed"
  /\ raised.code = "NOT_FOUND"
  /\ raised.message =
       <<"Resource not found: ", "Bad title", " (parameter: ", "title", ")", " [", "E42", "]">>

(* C30 as stated, for every non-2xx status: the message of the error        *)
(* contains M followed by the suffixes.                                     *)
C30_EveryStatus ==
  [][NestedErrorHandled =>
       /\ outcome'.kind = "failure"
       /\ EndsWith(outcome'.error.message, NestedDetail(resp.body))]_vars

(* C28: every call starts with an attempt: whatever maxRetries the client   *)
(* was built with, a call that has ended has issued at least one network    *)
(* call, and a call that ended in FAILED has had an attempt fail.           *)
C28_StartsWithAnAttempt ==
  Terminal =>
    /\ netCalls >= 1
    /\ pc = "failed" => failed >= 1

(***************************************************************************)
(*                 Properties of the encryption module                     *)
(***************************************************************************)
LastCall == crypto.last
CallBefore == crypto.before
ClientVars == <<maxRetries, lastRateLimit, calls, callVars>>

(* C22: for a plaintext of b bytes the pad length is 16 - (b mod 16),       *)
(* between 1 and 16; the padded bytes are the plaintext followed by pad     *)
(* bytes that all have the value of the pad length; the padded length is a  *)
(* multiple of 16 greater than b, so that a plaintext of a multiple of 16   *)
(* bytes, the empty one included, gets a full block of 16; and the          *)
(* ciphertext of encryptMessage has the length of the padded plaintext.     *)
C22_Padding ==
  /\ LastCall.fn = "applyPKCS7Padding" =>
       LET data == LastCall.args[1]
           padded == LastCall.out
           b == Len(data)
           pad == Len(padded) - b
       IN  /\ pad = 16 - (b % 16)
           /\ pad \in 1..16
           /\ SubSeq(padded, 1, b) = data
           /\ \A i \in (b + 1)..Len(padded) : padded[i] = pad
           /\ Len(padded) % 16 = 0
           /\ Len(padded) > b
           /\ b % 16 = 0 => Len(padded) = b + 16
  /\ LastCall.fn = "encryptMessage" =>
       LET b == Len(Utf8(LastCall.args[1]))
       IN  Len(CustomBase64Decode(LastCall.out)) = b + 16 - (b % 16)

C22_Witness ==
  /\ LastCall.fn = "applyPKCS7Padding"
  /\ Len(LastCall.args[1]) = 32
  /\ Len(LastCall.out) = 48
  /\ LastCall.out[33] = 16
  /\ CallBefore.fn = "applyPKCS7Padding"
  /\ CallBefore.args[1] = <<>>
  /\ CallBefore.out = [i \in 1..16 |-> 16]

(* C23: customBase64Encode(d) is the standard Base64 of d with every + (43) *)
(* replaced by - (45), every / (47) by . (46) and every = (61) by _ (95);   *)
(* it decodes back to d; the output of customBase64Encode and of            *)
(* encryptMessage never contains +, / or =; and the empty byte sequence     *)
(* gives the empty string.                                                  *)
C23_CustomBase64 ==
  /\ LastCall.fn = "customBase64Encode" =>
       LET d == LastCall.args[1]
           out == LastCall.out
           standard == Base64(d)
       IN  /\ Len(out) = Len(standard)
           /\ \A i \in 1..Len(out) :
                out[i] = CASE standard[i] = 43 -> 45
                           [] standard[i] = 47 -> 46
                           [] standard[i] = 61 -> 95
                           [] OTHER -> standard[i]
           /\ CustomBase64Decode(out) = d
           /\ d = <<>> => out = <<>>
  /\ LastCall.fn \in {"customBase64Encode", "encryptMessage"} =>
       \A i \in 1..Len(LastCall.out) : LastCall.out[i] \notin {43, 47, 61}

C23_Witness ==
  /\ LastCall.fn = "customBase64Encode"
  /\ LastCall.args[1] = <<255, 254>>
  /\ LastCall.out = <<46, 46, 52, 95>>
  /\ CallBefore.fn = "customBase64Encode"
  /\ CallBefore.args[1] = <<72, 101, 108, 108, 111, 44, 32, 87, 111, 114, 108, 100, 33>>
  /\ CallBefore.out = <<83, 71, 86, 115, 98, 71, 56, 115, 73, 70, 100, 118, 99, 109,
                        120, 107, 73, 81, 95, 95>>

(* C24: the inverse procedure applied to encryptMessage(P, W, IV), with the *)
(* same password and IV, gives exactly P.                                   *)
C24_RoundTrip ==
  LastCall.fn = "encryptMessage" =>
    DecryptMessage(LastCall.out, LastCall.args[2], LastCall.args[3]) = LastCall.args[1]

C24_Witness ==
  /\ LastCall.fn = "encryptMessage"
  /\ LastCall.args = <<<<72, 233, 8364, 127757>>, "secret",
                       [i \in 1..16 |-> (17 * i + 150) % 256]>>
  /\ LastCall.out = <<116, 99, 45, 103, 101, 73, 104, 84, 112, 70, 51, 110, 107, 69,
                      88, 70, 103, 50, 79, 72, 117, 65, 95, 95>>

(* C25: two invocations of encryptMessage with the same plaintext,          *)
(* password and IV return the same string, and two of deriveEncryptionKey   *)
(* with the same password the same key of 16 bytes, whatever was invoked    *)
(* before; and an invocation changes nothing of the client.                 *)
C25_Deterministic ==
  /\ [](/\ (/\ LastCall.fn \in {"encryptMessage", "deriveEncryptionKey"}
            /\ CallBefore.fn = LastCall.fn
            /\ CallBefore.args = LastCall.args) => LastCall.out = CallBefore.out
        /\ LastCall.fn = "deriveEncryptionKey" =>
             /\ Len(LastCall.out) = 16
             /\ \A i \in 1..16 : LastCall.out[i] \in 0..255)
  /\ [][crypto' # crypto => UNCHANGED ClientVars]_vars

C25_Witness ==
  /\ LastCall.fn = "encryptMessage"
  /\ CallBefore = LastCall
  /\ LastCall.args[1] = [i \in 1..16 |-> 65]
  /\ LastCall.args[2] = "test_password_123"
  /\ LastCall.args[3] = [i \in 1..16 |-> 0]
  /\ LastCall.out = <<78, 51, 104, 83, 50, 56, 120, 99, 48, 110, 77, 105, 57, 82, 99,
                      75, 110, 121, 65, 66, 81, 98, 49, 67, 116, 72, 111, 89, 108, 98,
                      89, 114, 69, 84, 87, 122, 70, 108, 97, 115, 111, 103, 119, 95>>

(* C26: encryptMessage with the same plaintext and password and two         *)
(* different IVs returns two different strings.                             *)
C26_IvSensitive ==
  (/\ LastCall.fn = "encryptMessage"
   /\ CallBefore.fn = "encryptMessage"
   /\ CallBefore.args[1] = LastCall.args[1]
   /\ CallBefore.args[2] = LastCall.args[2]
   /\ CallBefore.args[3] # LastCall.args[3]) => LastCall.out # CallBefore.out

C26_Witness ==
  /\ LastCall.fn = "encryptMessage"
  /\ CallBefore.fn = "encryptMessage"
  /\ LastCall.args[1] = <<>>
  /\ CallBefore.args[1] = <<>>
  /\ LastCall.args[2] = "secret"
  /\ CallBefore.args[2] = "secret"
  /\ LastCall.args[3] # CallBefore.args[3]
  /\ LastCall.out # CallBefore.out

(* The kind that handleErrorResponse gives to a status code.               *)
StatusKind(st) ==
  CASE st = 400 -> "VALIDATION_ERROR"
    [] st = 401 -> "AUTH_INVALID"
    [] st = 403 -> "AUTH_FORBIDDEN"
    [] st = 404 -> "NOT_FOUND"
    [] st = 429 -> "RATE_LIMIT"
    [] st \in {500, 502, 503, 504} -> "SERVER_ERROR"
    [] OTHER -> "UNKNOWN"

(* C31: whatever the body of a non-2xx response is (JSON with or without   *)
(* an error object, text that is no JSON, an empty body, a body that       *)
(* cannot be read) and whatever its content type, the attempt ends with    *)
(* exactly one library error, whose kind and retryable flag are those of   *)
(* the status code; the body changes the message only.                     *)
C31_BodyNeverChangesClassification ==
  [][(ResponseHandled /\ resp.status \notin 200..299) =>
       LET e == outcome'.error
       IN  /\ resp.body \in Bodies
           /\ outcome'.kind = "failure"
           /\ lastError' = e
           /\ failed' = failed + 1
           /\ netCalls' = netCalls
           /\ pc' \in {"wait", "failed"}
           /\ pc' = "failed" => raised' = e
           /\ e.code = StatusKind(resp.status)
           /\ e.isRetryable = (StatusKind(resp.status) \in {"RATE_LIMIT", "SERVER_ERROR"})
           /\ e.message # <<>>]_vars

(* A 500 whose body could not be parsed or read is a SERVER_ERROR whose    *)
(* message fell back to the status text, and it was retried.               *)
C31_Witness ==
  /\ pc = "failed"
  /\ maxRetries = 1
  /\ netCalls = 2
  /\ raised.code = "SERVER_ERROR"
  /\ raised.isRetryable
  /\ raised.message = <<"API error (", "500", "): ", "Status Text">>

(* The detail that handleErrorResponse embeds at the end of the message of *)
(* an error (every status but 401 and 403), and the statuses that embed    *)
(* it.                                                                     *)
DetailOf(e) == e.message[Len(e.message)]
EmbedsDetail(st) == st \notin 200..299 /\ st \notin {401, 403}
StatusLineOr(response) ==
  IF response.statusText # "" THEN response.statusText ELSE "Unknown error"

(* C32 as stated: when the body of an error response is no JSON, the       *)
(* detail of the message is the raw text of the body; if the text cannot   *)
(* be had, the status text; if that is empty, 'Unknown error'.             *)
C32_FallbackOrder ==
  [][(ResponseHandled /\ EmbedsDetail(resp.status)
        /\ resp.body.fmt \in {"text", "unreadable"}) =>
       DetailOf(outcome'.error) =
         IF resp.body.fmt = "text" THEN resp.body.raw ELSE StatusLineOr(resp)]_vars

(* C32 as the code has it: the raw text is the detail only of a response   *)
(* that is not announced as JSON; a body announced as JSON that does not   *)
(* parse, and a body that cannot be read, give the status text, and        *)
(* 'Unknown error' if the status text is empty.                            *)
C32_FallbackByContentType ==
  [][(ResponseHandled /\ EmbedsDetail(resp.status)
        /\ resp.body.fmt \in {"text", "unreadable"}) =>
       DetailOf(outcome'.error) =
         IF ~resp.contentTypeJson /\ resp.body.fmt = "text"
           THEN resp.body.raw
           ELSE StatusLineOr(resp)]_vars

(* A 404 announced as JSON whose body is the text 'Bad Gateway': the       *)
(* message carries the status text, not the body.                          *)
C32_Witness ==
  /\ pc = "failed"
  /\ raised.code = "NOT_FOUND"
  /\ raised.message = <<"Resource not found: ", "Not Found">>

(* C33: a non-2xx response whose body is the flat JSON object              *)
(* {message: M}, with no nested error object, raises an error whose        *)
(* message contains M (for the statuses whose message embeds the detail    *)
(* of the server: every one but 401 and 403).                              *)
C33_FlatMessageEmbedded ==
  [][(ResponseHandled /\ EmbedsDetail(resp.status)
        /\ resp.contentTypeJson /\ resp.body.fmt = "flat") =>
       \E i \in 1..Len(outcome'.error.message) :
         outcome'.error.message[i] = resp.body.message]_vars

(* C34: the timer of an attempt covers the attempt for its whole duration:  *)
(* as long as the attempt has not completed, while fetch is pending and    *)
(* while the body of the response is being read, the timer that aborts it  *)
(* at the end of the timeout is armed.                                     *)
C34_TimerCoversWholeAttempt ==
  pc \in {"fetch", "body"} => timeoutTimer = "armed"

(* C35: a send() that was given an encryptionPassword that is a string,    *)
(* the empty string included, posts a body that carries iv and whose       *)
(* message is not the plaintext message of the call.                       *)
C35_NoPlaintextWithPassword ==
  (pc # "idle" /\ endpoint = "/send" /\ options.encryptionPassword.given) =>
    /\ requestBody.iv.given
    /\ requestBody.message # options.message

(* The step on which an attempt that is not the first of its call issues   *)
(* its network call.                                                       *)
RetryIssued == netCalls >= 1 /\ netCalls' = netCalls + 1

(* C36: every attempt of a call sends the same request: the body built by  *)
(* send() (ciphertext, iv and tags included) or by notifai(), the endpoint *)
(* and the options do not change from the first attempt to the end of the  *)
(* call, and every retry hands to fetch the URL, the Authorization header  *)
(* and the serialized body that the attempt before it handed over.         *)
C36_SameRequestEveryAttempt ==
  [][/\ (pc # "idle" /\ pc' # "idle") =>
          /\ requestBody' = requestBody
          /\ endpoint' = endpoint
          /\ options' = options
     /\ RetryIssued =>
          /\ outcome'.request = outcome.request
          /\ outcome'.request.url[2] = endpoint
          /\ outcome'.request.authorization = <<"Bearer ", "abc12345">>
     /\ netCalls' = netCalls + 1 =>
          /\ outcome'.request.url[2] = endpoint'
          /\ endpoint' = "/send" =>
               /\ outcome'.request.body[2] = <<"message", requestBody'.message>>
               /\ requestBody'.iv.given =>
                    outcome'.request.body[Len(outcome'.request.body)]
                      = <<"iv", requestBody'.iv.value>>]_vars

(* The third attempt of an encrypted send() has been issued with the       *)
(* ciphertext and the iv of the first.                                     *)
C36_Witness ==
  /\ pc = "fetch"
  /\ endpoint = "/send"
  /\ netCalls = 3
  /\ requestBody.iv.given
  /\ requestBody.message # options.message
  /\ Len(outcome.request.body) = 6
  /\ outcome.request.body[6] = <<"iv", requestBody.iv.value>>

(* The wait that the index n of a failed attempt and the error of that     *)
(* attempt give.                                                           *)
WaitOf(n, e) ==
  IF e.code = "RATE_LIMIT" /\ e.retryAfterSeconds.defined
    THEN e.retryAfterSeconds.value * 1000
    ELSE LET base == IF e.code = "RATE_LIMIT" THEN 5000 ELSE 1000
             d == base * 2^n
         IN  IF d > 30000 THEN 30000 ELSE d

(* The step on which attempt n fails and its wait begins; lastError is     *)
(* still the error of attempt n - 1 and delay the wait before attempt n.   *)
WaitBegins == pc \in {"fetch", "body"} /\ pc' = "wait"

(* C37: the wait after failed attempt n is a function of n and of the      *)
(* error of attempt n alone, whatever the error and the wait of the        *)
(* attempt before were: after a SERVER_ERROR at attempt 0 (wait 1000) a    *)
(* RATE_LIMIT without hint at attempt 1 waits 10000, and a hint carried by *)
(* the error of attempt n - 1 is not used after attempt n.                 *)
C37_WaitDependsOnOwnAttempt ==
  [][WaitBegins =>
       LET e == outcome'.error
       IN  /\ lastError' = e
           /\ attempt' = attempt
           /\ delay' = WaitOf(attempt, e)
           /\ (attempt = 1 /\ lastError.code = "SERVER_ERROR" /\ delay = 1000
                 /\ e.code = "RATE_LIMIT" /\ ~e.retryAfterSeconds.defined) =>
                delay' = 10000
           /\ (lastError.retryAfterSeconds.defined /\ ~e.retryAfterSeconds.defined) =>
                delay' = (IF e.code = "RATE_LIMIT" THEN 5000 ELSE 1000) * 2^attempt
                  \/ delay' = 30000]_vars

(* The wait after attempt 1 that failed with RATE_LIMIT without a hint.    *)
C37_Witness ==
  /\ pc = "wait"
  /\ attempt = 1
  /\ netCalls = 2
  /\ waits = 2
  /\ lastError.code = "RATE_LIMIT"
  /\ ~lastError.retryAfterSeconds.defined
  /\ delay = 10000

(* C38: a timeout timer that fires after the attempt that set it has       *)
(* completed (its fetch rejected, so the timer was never cleared) has no   *)
(* effect: no call, no later attempt of the same call and no concurrent    *)
(* call, changes its position, its attempt, its errors, its network calls  *)
(* or its waits, and the client's state is left as it was.                 *)
C38_StaleTimerHasNoEffect ==
  [][staleTimers' < staleTimers =>
       /\ calls' = calls
       /\ lastRateLimit' = lastRateLimit
       /\ maxRetries' = maxRetries
       /\ \A c \in Calls :
            /\ calls[c].pc = "fetch" => calls'[c].pc = "fetch"
            /\ calls'[c].failed = calls[c].failed
            /\ calls'[c].netCalls = calls[c].netCalls
            /\ calls'[c].lastError = calls[c].lastError]_vars

(* The first attempt of call 1 failed in the network and left its timer    *)
(* running; the timer has fired, and the second attempt of call 1 and an   *)
(* attempt of call 2 are pending.                                          *)
C38_Witness ==
  /\ calls[1].pc = "fetch"
  /\ calls[1].netCalls = 2
  /\ calls[1].failed = 1
  /\ calls[1].lastError.code = "NETWORK_ERROR"
  /\ calls[2].pc = "fetch"
  /\ calls[2].failed = 0
  /\ staleTimers = 0

(* The kinds of the library's errors.                                      *)
Kinds ==
  {"UNKNOWN", "NETWORK_ERROR", "TIMEOUT", "AUTH_INVALID", "AUTH_FORBIDDEN",
   "VALIDATION_ERROR", "NOT_FOUND", "RATE_LIMIT", "SERVER_ERROR"}

(* The step on which an attempt ends by throwing into the retry loop.      *)
AttemptThrows == outcome.kind = "pending" /\ outcome'.kind = "failure"

(* C39: whatever ends an attempt without success (a response of any status *)
(* and body, a rejection of fetch with a failure object or with another    *)
(* value, the abort by the timer), what the attempt throws into the retry  *)
(* loop is a library error that carries a kind; the loop records it as the *)
(* last error, never rethrows a value without a kind, and what the call    *)
(* raises to its caller is a library error with a kind.                    *)
C39_OnlyLibraryErrors ==
  /\ [](pc = "failed" => raised.code \in Kinds /\ raised.message # <<>>)
  /\ [](lastError # NoError => lastError.code \in Kinds)
  /\ [][AttemptThrows =>
          /\ outcome'.error.code \in Kinds
          /\ outcome'.error.message # <<>>
          /\ lastError' = outcome'.error
          /\ pc' = "failed" => raised' = outcome'.error]_vars

(* fetch rejected with a value that is no failure object: the call raised  *)
(* a library error of kind UNKNOWN that carries the string of the value.   *)
C39_Witness ==
  /\ pc = "failed"
  /\ netCalls = 1
  /\ failed = 1
  /\ raised.code = "UNKNOWN"
  /\ ~raised.isRetryable
  /\ raised = lastError
  /\ raised.message = <<"Unexpected error: ", "string error">>

====
